---- MODULE Spec2Model ----
(***************************************************************************)
(* Release reconciliation of the k8s-operator charm bundle                 *)
(* (scripts/charm_release.py, scripts/util/charmhub.py,                    *)
(* scripts/util/sqa.py).                                                   *)
(*                                                                         *)
(* The world is the package registry (one candidate and one stable         *)
(* revision matrix per charm of one track) and the test service (product   *)
(* versions, addons, test-plan-instances).  The registry's publishers and  *)
(* the test service's runners are the environment.  One pass of            *)
(* process_track is one action over the ways the pass can end: the pass    *)
(* sends one command after the other, and between two of them builds are   *)
(* published and tests finish.                                             *)
(***************************************************************************)
EXTENDS Integers, Sequences, FiniteSets, TLC

(***************************************************************************)
(* Bounds of the model.                                                    *)
(***************************************************************************)
\* number of revisions published to candidate channels by the environment
MaxPublish == 2
\* cap on the records of one kind (test-plan-instances, addons) the test
\* service holds
MaxRecords == 2
\* number of distinct keys handed to TrackState.set_state in SpecTrackState
MaxKeys == 3
\* number of tracks handed to one run of main in SpecMain
MaxTracks == 2
\* the set calls made on the two matrices of SpecMatrix
MaxSets == 4
\* the threads reading the PriorityGenerator of SpecPriority
MaxThreads == 3

(***************************************************************************)
(* Domains.                                                                *)
(***************************************************************************)
\* --charms default of main; the order of the bundle_charms list
BundleCharms == <<"k8s", "k8s-worker">>
Charms == {BundleCharms[i] : i \in 1..Len(BundleCharms)}
\* sorted() order of the charm names
CharmOrder == <<"k8s", "k8s-worker">>
BundleName == "k8s-operator"
Archs == {"amd64", "arm64"}
\* two of the bases get_revision_matrix queries
Bases == {"20.04", "22.04"}
\* revisions are opaque non-zero identifiers
Revs == {1, 2}
\* RevisionMatrix.get of an absent cell (None)
NoRev == 0
Track == "1.32"
CandidateChannel == "1.32/candidate"
StableChannel == "1.32/stable"

\* F applied to the value of e, e evaluated once (a local of the source that
\* is assigned once and read many times)
Bind(e, F(_)) == CHOOSE v \in {F(r) : r \in {e}} : TRUE

(***************************************************************************)
(* RevisionMatrix: a function from the populated cells to revisions.       *)
(***************************************************************************)
EmptyMatrix == [k \in {} |-> NoRev]

MatrixSet(m, arch, base, revision) ==
    [k \in DOMAIN m \cup {<<arch, base>>} |->
        IF k = <<arch, base>> THEN revision ELSE m[k]]

MatrixGet(m, arch, base) ==
    IF <<arch, base>> \in DOMAIN m THEN m[<<arch, base>>] ELSE NoRev

MatrixArchs(m) == {k[1] : k \in DOMAIN m}

MatrixBases(m) == {k[2] : k \in DOMAIN m}

\* mutant: __eq__ not defined, two matrices compared by identity
MatrixEqIdentity(m1, m2) == FALSE

\* mutant: two matrices with the same cells taken for equal
MatrixEqSameCells(m1, m2) == DOMAIN m1 = DOMAIN m2

\* RevisionMatrix.__eq__: equality of the two dicts
MatrixEq(m1, m2) ==
    /\ DOMAIN m1 = DOMAIN m2
    /\ \A k \in DOMAIN m1 : m1[k] = m2[k]

\* RevisionMatrix.__bool__
MatrixBool(m) ==
    IF DOMAIN m = {} THEN FALSE ELSE \A k \in DOMAIN m : m[k] # NoRev

(***************************************************************************)
(* find_revision and get_revision_matrix.  A response of Charmhub is       *)
(* [answered, status_code, revision]: answered is FALSE when requests.post *)
(* raised instead (connection error, timeout); revision is NoRev when the  *)
(* answer holds none.                                                      *)
(***************************************************************************)
NoResponse == [answered |-> FALSE, status_code |-> 0, revision |-> NoRev]

\* find_revision: "... .get("revision") if r.status_code == 200 else None"
FindRevision(r) == IF r.status_code = 200 THEN r.revision ELSE NoRev

\* the order get_revision_matrix queries the cells in: bases, then architectures
QueryOrder ==
    <<<<"amd64", "20.04">>, <<"arm64", "20.04">>,
      <<"amd64", "22.04">>, <<"arm64", "22.04">>>>

RECURSIVE QueryCells(_, _, _)
\* the loops of get_revision_matrix over the responses of the cells; acc is
\* [matrix, raised, queried]
QueryCells(acc, responses, cells) ==
    IF cells = <<>> \/ acc.raised THEN acc
    ELSE LET k == Head(cells)
             r == responses[k]
         IN IF ~r.answered
            THEN [acc EXCEPT !.raised = TRUE, !.queried = @ \cup {k}]
            ELSE QueryCells(
                   [matrix |-> IF FindRevision(r) # NoRev
                               THEN MatrixSet(acc.matrix, k[1], k[2], FindRevision(r))
                               ELSE acc.matrix,
                    raised |-> FALSE,
                    queried |-> acc.queried \cup {k}],
                   responses, Tail(cells))

GetRevisionMatrix(responses) ==
    QueryCells([matrix |-> EmptyMatrix, raised |-> FALSE, queried |-> {}],
               responses, QueryOrder)

(***************************************************************************)
(* Bundle: data maps each charm that was set to its matrix.                *)
(***************************************************************************)
\* a charm of the bundle whose matrix is None
NoMatrix == [k \in {<<"None", "None">>} |-> NoRev]

\* Bundle.is_testable with item the matrix random.choice picked (of charm ref)
BundleIsTestable(data, ref) ==
    IF DOMAIN data = {} \/ \E c \in DOMAIN data : data[c] = NoMatrix THEN FALSE
    ELSE LET item == data[ref]
             bases == MatrixBases(item)
             archs == MatrixArchs(item)
         IN \A c \in DOMAIN data :
              /\ MatrixBases(data[c]) = bases
              /\ MatrixArchs(data[c]) = archs
              /\ \A base \in bases : \A arch \in archs :
                    ~(MatrixGet(item, arch, base) # NoRev
                        /\ MatrixGet(data[c], arch, base) = NoRev)

\* Bundle.get_archs / get_bases with the matrix random.choice picked
BundleGetArchs(data, pick) == MatrixArchs(data[pick])

BundleGetBases(data, pick) == MatrixBases(data[pick])

\* Bundle.get_revisions: the revision of every charm of the bundle for the cell
BundleGetRevisions(data, arch, base) ==
    [c \in DOMAIN data |-> MatrixGet(data[c], arch, base)]

\* None of Bundle.get_version
NoVersion == [name |-> "", parts |-> <<>>]

SortedCharms(S) == SelectSeq(CharmOrder, LAMBDA c : c \in S)

RECURSIVE VersionParts(_, _, _, _)
\* the loop of Bundle.get_version: <<>> stands for the early return None
VersionParts(data, charms, arch, base) ==
    IF charms = <<>> THEN <<>>
    ELSE LET charm == Head(charms)
             revision == MatrixGet(data[charm], arch, base)
             rest == VersionParts(data, Tail(charms), arch, base)
         IN IF ~MatrixBool(data[charm]) \/ revision = NoRev
              \/ (Len(charms) > 1 /\ rest = <<>>)
            THEN <<>>
            ELSE <<[charm |-> charm, revision |-> revision]>> \o rest

\* Bundle.get_version: the name followed by -{charm}-{revision} per sorted charm
BundleGetVersion(data, arch, base) ==
    LET charms == SortedCharms(DOMAIN data)
        parts == VersionParts(data, charms, arch, base)
    IN IF charms = <<>> \/ parts = <<>> THEN NoVersion
       ELSE [name |-> BundleName, parts |-> parts]

\* Bundle.__init__ with the dict in the order its keys were first set in
EmptyBundle == [keys |-> <<>>, data |-> [c \in {} |-> EmptyMatrix]]

\* Bundle.set: a new charm goes to the end of the dict, a charm set again
\* keeps its place
BundleSet(b, charm, revision_matrix) ==
    [keys |-> IF \E i \in DOMAIN b.keys : b.keys[i] = charm THEN b.keys
              ELSE Append(b.keys, charm),
     data |-> [c \in DOMAIN b.data \cup {charm} |->
                  IF c = charm THEN revision_matrix ELSE b.data[c]]]

\* mutant: the charms taken in the order they were set in
KeysAsSet(keys) == keys

\* sorted(self.data.keys())
SortedKeys(keys) == SortedCharms({keys[i] : i \in DOMAIN keys})

\* Bundle.get_version of a bundle built by set calls
GetVersion(b, arch, base) ==
    LET charms == SortedKeys(b.keys)
        parts == VersionParts(b.data, charms, arch, base)
    IN IF charms = <<>> \/ parts = <<>> THEN NoVersion
       ELSE [name |-> BundleName, parts |-> parts]

(***************************************************************************)
(* TestPlanInstanceStatus.                                                 *)
(***************************************************************************)
IN_PROGRESS == "In Progress"
SKIPPED == "skipped"
ERROR == "error"
ABORTED == "aborted"
FAILURE == "failure"
SUCCESS == "success"
UNKNOWN == "unknown"
PASSED == "Passed"
FAILED == "Failed"
RELEASED == "Released"

Statuses == {IN_PROGRESS, SKIPPED, ERROR, ABORTED, FAILURE, SUCCESS, UNKNOWN,
             PASSED, FAILED, RELEASED}

\* Optional[TestPlanInstanceStatus]: None
NoStatus == "none"

StatusInProgress(s) == s = IN_PROGRESS

StatusSucceeded(s) == s = PASSED

\* mutant: the result "failure" counted as a failed test-plan-instance
StatusFailedOrFailure(s) == s \in {FAILED, FAILURE}

StatusFailed(s) == s \in {FAILED}

\* status.value.lower(), the text of the --status filter
StatusLower(s) ==
    CASE s = IN_PROGRESS -> "in progress"
      [] s = PASSED -> "passed"
      [] s = FAILED -> "failed"
      [] s = RELEASED -> "released"
      [] OTHER -> s

(***************************************************************************)
(* TrackState: _state_map as a function from version keys to statuses.     *)
(***************************************************************************)
EmptyStateMap == [v \in {} |-> NoStatus]

SetState(m, version, state) ==
    [v \in DOMAIN m \cup {version} |-> IF v = version THEN state ELSE m[v]]

TrackFailed(m) == \E v \in DOMAIN m : StatusFailed(m[v])

TrackSucceeded(m) == \A v \in DOMAIN m : StatusSucceeded(m[v])

\* mutant: in_progress without the check of failed
TrackInProgressAny(m) == \E v \in DOMAIN m : StatusInProgress(m[v])

TrackInProgress(m) ==
    IF TrackFailed(m) THEN FALSE
    ELSE \E v \in DOMAIN m : StatusInProgress(m[v])

(***************************************************************************)
(* The test service (weebl): sqa = [pvs, addons, tpis].                    *)
(*   product version  [id, channel, version, series]                       *)
(*   addon            [id, name]                                           *)
(*   test-plan-inst.  [id, pv, addon, status]                              *)
(***************************************************************************)
EmptySQA == [pvs |-> {}, addons |-> {}, tpis |-> {}]

\* mutant: a lookup of product versions that finds none
ProductVersionsNone(sqa, channel, version) == {}

\* _product_versions: productversion list --channel --version
ProductVersions(sqa, channel, version) ==
    {p \in sqa.pvs : p.channel = channel /\ p.version = version}

\* mutant: the --status filter compared without lowering the stored status
TestPlanInstancesCaseSensitive(sqa, productversion_uuid, status) ==
    {t \in sqa.tpis : /\ t.pv = productversion_uuid
                      /\ t.status = StatusLower(status)}

\* _test_plan_instances: testplaninstance list --productversion-uuid --status
TestPlanInstances(sqa, productversion_uuid, status) ==
    {t \in sqa.tpis : /\ t.pv = productversion_uuid
                      /\ StatusLower(t.status) = StatusLower(status)}

(***************************************************************************)
(* current_test_plan_instance_status issues one command after the other:   *)
(* "productversion list", then for each status of LookupOrder one          *)
(* "testplaninstance list" per product version.  Each command is a         *)
(* subprocess the caller waits for, and each reads the test service as it  *)
(* is when the command runs.  A lookup in flight is                        *)
(*   [pvs: the uuids "productversion list" printed, in its order,          *)
(*    i: the index in LookupOrder of the status looked up,                 *)
(*    j: the index in pvs of the product version of the next command,      *)
(*    joined: whether a command of the status found an instance,           *)
(*    done, result].                                                       *)
(***************************************************************************)
\* mutant: the instances in progress looked up before the passed ones
LookupOrderInProgressFirst == <<IN_PROGRESS, PASSED, FAILED>>

\* the order of the lookups of current_test_plan_instance_status (lines 180-197)
LookupOrder == <<PASSED, IN_PROGRESS, FAILED>>

RECURSIVE SortedIds(_)
\* the elements of a set of numbers in increasing order
SortedIds(S) ==
    IF S = {} THEN <<>>
    ELSE LET m == CHOOSE x \in S : \A y \in S : x <= y
         IN <<m>> \o SortedIds(S \ {m})

\* the lookup after "product_versions = _product_versions(channel, version)"
\* and "if not product_versions: return None"
NewLookup(product_versions) ==
    [pvs |-> SortedIds({p.id : p \in product_versions}), i |-> 1, j |-> 1,
     joined |-> FALSE,
     done |-> product_versions = {}, result |-> NoStatus]

\* the product version and the status of the next "testplaninstance list"
LookupPv(q) == q.pvs[q.j]
LookupStatus(q) == LookupOrder[q.i]

\* one "testplaninstance list" command on the service as it is, and what
\* _joined_test_plan_instances and the "if ...: return" after it make of it
LookupStep(q, sqa) ==
    LET found == TestPlanInstances(sqa, LookupPv(q), LookupStatus(q)) # {}
        joined == q.joined \/ found
    IN IF q.j < Len(q.pvs)
       THEN [q EXCEPT !.j = @ + 1, !.joined = joined]
       ELSE IF joined
       THEN [q EXCEPT !.joined = TRUE, !.done = TRUE, !.result = LookupStatus(q)]
       ELSE IF q.i < Len(LookupOrder)
       THEN [q EXCEPT !.i = @ + 1, !.j = 1, !.joined = FALSE]
       ELSE [q EXCEPT !.done = TRUE, !.result = NoStatus]

\* the running instances of a product version
InProgressOf(sqa, pv) ==
    {t \in sqa.tpis : t.pv = pv /\ t.status = IN_PROGRESS}

\* The test service while the caller is between two of its commands: any of
\* the running instances of the product version finish, each in one of the
\* given statuses (none of them: the service as it was).  mid names the
\* instances that finished.  An instance of another product version that
\* finishes here is not read by the next command: that step is taken at the
\* next lookup of its product version, or after the call.
Finishes(sqa, pv, finals) ==
    {[sqa |-> [sqa EXCEPT !.tpis =
                  {IF t \in DOMAIN f THEN [t EXCEPT !.status = f[t]] ELSE t :
                      t \in sqa.tpis}],
      mid |-> {[tpi |-> t.id, status |-> f[t]] : t \in DOMAIN f}] :
        f \in UNION {[T -> finals] : T \in SUBSET InProgressOf(sqa, pv)}}

RECURSIVE LookupRun(_, _, _, _)
\* the lookups from q on to the return of the call, the service moving
\* between the commands: the set of [status, sqa, mid] the call can end in
LookupRun(q, sqa, mid, finals) ==
    IF q.done THEN {[status |-> q.result, sqa |-> sqa, mid |-> mid]}
    ELSE UNION {LookupRun(n.q, n.sqa, n.mid, finals) :
                   n \in {[q |-> LookupStep(q, e.sqa), sqa |-> e.sqa,
                           mid |-> mid \cup e.mid] :
                             e \in Finishes(sqa, LookupPv(q), finals)}}

\* current_test_plan_instance_status(channel, version) called on the service
\* sqa: what it can return and the service it leaves, over the steps the
\* service takes between its commands
CurrentTestPlanInstanceStatus(sqa, channel, version, finals) ==
    LookupRun(NewLookup(ProductVersions(sqa, channel, version)), sqa, {}, finals)

\* the commands of start_release_test that can fail
StartSteps == {"pv_list", "pv_create", "addon_get", "addon_create", "tpi_create"}

NewProductVersion(sqa, channel, base, version) ==
    [id |-> Cardinality(sqa.pvs) + 1, channel |-> channel,
     version |-> version, series |-> base]

NewAddon(sqa, version) ==
    [id |-> Cardinality(sqa.addons) + 1, name |-> version]

NewTestPlanInstance(sqa, product_version_uuid, addon_uuid) ==
    [id |-> Cardinality(sqa.tpis) + 1, pv |-> product_version_uuid,
     addon |-> addon_uuid, status |-> IN_PROGRESS]

\* mutant: several matching records taken for one
AmbiguousNever(records) == FALSE

\* "len(product_versions) > 1": more than one record matches
Ambiguous(records) == Cardinality(records) > 1

\* start_release_test; failAt is the command that fails ("none": no command
\* fails).  The result is the test service afterwards and whether the call
\* returned (ok) or raised SQAFailure.
StartReleaseTest(sqa, channel, base, arch, version, failAt) ==
    LET product_versions == ProductVersions(sqa, channel, version)
        raised(s) == [sqa |-> s, ok |-> FALSE]
    IN IF failAt = "pv_list" THEN raised(sqa)
       ELSE IF Ambiguous(product_versions) THEN raised(sqa)
       ELSE IF product_versions = {} /\ failAt = "pv_create" THEN raised(sqa)
       ELSE
        LET created == NewProductVersion(sqa, channel, base, version)
            product_version ==
                IF product_versions = {} THEN created
                ELSE CHOOSE p \in product_versions : TRUE
            sqa1 == IF product_versions = {}
                    THEN [sqa EXCEPT !.pvs = @ \cup {created}]
                    ELSE sqa
            \* _get_addon: a failing "addon show" is read as "no addon"
            addons == IF failAt = "addon_get" THEN {}
                      ELSE {a \in sqa1.addons : a.name = version}
        IN IF Cardinality(addons) > 1 THEN raised(sqa1)
           ELSE IF addons = {} /\ failAt = "addon_create" THEN raised(sqa1)
           ELSE
            LET new_addon == NewAddon(sqa1, version)
                addon == IF addons = {} THEN new_addon
                         ELSE CHOOSE a \in addons : TRUE
                sqa2 == IF addons = {}
                        THEN [sqa1 EXCEPT !.addons = @ \cup {new_addon}]
                        ELSE sqa1
            IN IF failAt = "tpi_create" THEN raised(sqa2)
               ELSE [sqa |-> [sqa2 EXCEPT !.tpis = @ \cup
                        {NewTestPlanInstance(sqa2, product_version.id, addon.id)}],
                     ok |-> TRUE]

(***************************************************************************)
(* ProcessState and the faults of the external commands of one pass.       *)
(***************************************************************************)
PROCESS_SUCCESS == "process_success"
PROCESS_IN_PROGRESS == "process_in_progress"
PROCESS_FAILED == "process_failed"
PROCESS_CI_FAILED == "process_ci_failed"
PROCESS_UNCHANGED == "process_unchanged"
ProcessStates == {PROCESS_SUCCESS, PROCESS_IN_PROGRESS, PROCESS_FAILED,
                  PROCESS_CI_FAILED, PROCESS_UNCHANGED}
\* process_track did not return: an exception left it
RAISED == "raised"

NoFault == [kind |-> "none", at |-> "", step |-> ""]

\* registry: the request of a charm's matrix raises (connection error, timeout)
\* http:     the requests of a charm's candidate matrix get a non-200 response
\* status:   a command of current_test_plan_instance_status fails at a base
\* start:    a command of start_release_test fails at a base
\* promote:  charmcraft promote fails for a charm
Faults ==
    {NoFault}
    \cup {[kind |-> "registry", at |-> c, step |-> ""] : c \in Charms}
    \cup {[kind |-> "http", at |-> c, step |-> ""] : c \in Charms}
    \cup {[kind |-> "status", at |-> b, step |-> ""] : b \in Bases}
    \cup {[kind |-> "start", at |-> b, step |-> s] : b \in Bases, s \in StartSteps}
    \cup {[kind |-> "promote", at |-> c, step |-> ""] : c \in Charms}

(***************************************************************************)
(* ensure_track_state.                                                     *)
(***************************************************************************)
Unvisited == "unvisited"

\* mutant: every architecture of the bundle is tested
SupportedArchAny(arch) == TRUE

\* "if arch != "amd64": continue": the one architecture the test service supports
SupportedArch(arch) == arch = "amd64"

\* mutant: every test of a pass started with the same priority
NextPrioritySame(priority) == priority

\* "priority+=1" after a test was started
NextPriority(priority) == priority + 1

\* the body of "for base in bundle.get_bases()" for an architecture after
\* the status lookup returned r = [status, sqa, mid]
EnsureResolved(acc, r, channel, bundle, arch, base, version, dry_run, fault) ==
    LET seen == [acc EXCEPT !.resolved[base] = r.status,
                            !.looked = @ \cup {<<arch, base>>},
                            !.sqa = r.sqa,
                            !.mid = @ \cup r.mid]
        put(a, state) ==
            [a EXCEPT !.state_map = SetState(@, version, state),
                      !.recorded = @ \cup {<<arch, base>>}]
    IN IF r.status # NoStatus
       THEN put(seen, r.status)
       ELSE IF dry_run
       THEN put(seen, IN_PROGRESS)
       ELSE
        LET failAt == IF fault.kind = "start" /\ fault.at = base
                      THEN fault.step ELSE "none"
        IN Bind(StartReleaseTest(r.sqa, channel, base, arch, version, failAt),
                LAMBDA t :
           LET call == [arch |-> arch, base |-> base, version |-> version,
                        priority |-> acc.priority, ok |-> t.ok]
           IN IF t.ok
           THEN put([seen EXCEPT !.sqa = t.sqa,
                                 !.started = Append(@, call),
                                 !.priority = NextPriority(@)],
                    IN_PROGRESS)
           ELSE [seen EXCEPT !.sqa = t.sqa,
                             !.started = Append(@, call),
                             !.error = "SQAFailure"])

\* the body of "for base in bundle.get_bases()" for an architecture: the set
\* of the states it can leave
EnsureCell(acc, channel, bundle, arch, base, dry_run, fault, finals) ==
    Bind(BundleGetVersion(bundle, arch, base), LAMBDA version :
       IF version = NoVersion THEN {acc}
       ELSE IF fault.kind = "status" /\ fault.at = base
            THEN {[acc EXCEPT !.looked = @ \cup {<<arch, base>>},
                              !.error = "SQAFailure"]}
       ELSE {EnsureResolved(acc, r, channel, bundle, arch, base, version,
                            dry_run, fault) :
                r \in CurrentTestPlanInstanceStatus(acc.sqa, channel, version,
                                                    finals)})

RECURSIVE EnsureLoop(_, _, _, _, _, _, _, _)
\* "for base in bundle.get_bases()"; an exception ends the loop
EnsureLoop(acc, channel, bundle, arch, bases, dry_run, fault, finals) ==
    IF bases = <<>> \/ acc.error # "none" THEN {acc}
    ELSE UNION {EnsureLoop(a, channel, bundle, arch, Tail(bases), dry_run,
                           fault, finals) :
                   a \in EnsureCell(acc, channel, bundle, arch, Head(bases),
                                    dry_run, fault, finals)}

RECURSIVE EnsureArchs(_, _, _, _, _, _, _, _)
\* "for arch in bundle.get_archs()"
EnsureArchs(acc, channel, bundle, archs, bases, dry_run, fault, finals) ==
    IF archs = <<>> \/ acc.error # "none" THEN {acc}
    ELSE IF ~SupportedArch(Head(archs))
         THEN EnsureArchs(acc, channel, bundle, Tail(archs), bases, dry_run,
                          fault, finals)
         ELSE UNION {EnsureArchs(a, channel, bundle, Tail(archs), bases,
                                 dry_run, fault, finals) :
                        a \in EnsureLoop(acc, channel, bundle, Head(archs),
                                         bases, dry_run, fault, finals)}

\* the order the architectures of a bundle are iterated in
ArchOrder == <<"amd64", "arm64">>

\* ensure_track_state; order is the iteration order of the set of bases and
\* finals the statuses the service leaves a finished instance in.  The result
\* is the set of the states the call can end in.
EnsureTrackState(sqa, channel, bundle, dry_run, pick, order, fault, finals) ==
    LET acc == [sqa |-> sqa, state_map |-> EmptyStateMap, priority |-> 1,
                resolved |-> [b \in Bases |-> Unvisited],
                looked |-> {}, recorded |-> {},
                started |-> <<>>, mid |-> {}, error |-> "none"]
        archs == SelectSeq(ArchOrder, LAMBDA a : a \in BundleGetArchs(bundle, pick))
        bases == SelectSeq(order, LAMBDA b : b \in BundleGetBases(bundle, pick))
    IN EnsureArchs(acc, channel, bundle, archs, bases, dry_run, fault, finals)

(***************************************************************************)
(* process_track.                                                          *)
(***************************************************************************)
\* the candidate channel after a build b = [charms, arch, base, revision]
\* published its revision of the charms for the cell
AfterBuild(cand, b) ==
    [c \in DOMAIN cand |->
        IF c \in b.charms THEN MatrixSet(cand[c], b.arch, b.base, b.revision)
        ELSE cand[c]]

\* a build publishes a new (higher) revision
NewBuild(cand, published, b) ==
    /\ published < MaxPublish
    /\ \A c \in b.charms : MatrixGet(cand[c], b.arch, b.base) < b.revision

RECURSIVE Publishes(_, _)
\* The registry while the caller is between two of its commands: any of the
\* given builds are published, one after the other (none of them: the
\* registry as it was).  reg = [cand, published, pub]: the candidate channel
\* of the track, the number of builds published so far and the builds
\* published since the call began.
Publishes(reg, builds) ==
    {reg} \cup
    UNION {Publishes(n, builds) :
              n \in {[cand |-> AfterBuild(reg.cand, b),
                      published |-> reg.published + 1,
                      pub |-> reg.pub \cup {b}] :
                        b \in {x \in builds :
                                  NewBuild(reg.cand, reg.published, x)}}}

\* mutant: a promotion that releases nothing
PromoteCharmNothing(candidate_matrix, stable_matrix) == stable_matrix

\* charmcraft promote: the revisions of from_channel are released to to_channel
PromoteCharm(candidate_matrix, stable_matrix) ==
    [k \in DOMAIN stable_matrix \cup DOMAIN candidate_matrix |->
        IF k \in DOMAIN candidate_matrix THEN candidate_matrix[k]
        ELSE stable_matrix[k]]

\* mutant: the delta decided without looking at the stable matrix
HasDeltaIgnoringStable(cand, stab, charm) == MatrixBool(cand[charm])

\* a charm has a delta: its candidate matrix is populated and differs from stable
HasDelta(cand, stab, charm) ==
    MatrixBool(cand[charm]) /\ ~MatrixEq(cand[charm], stab[charm])

\* the matrix process_track sets for the charm in the bundle
BundleEntry(cand, stab, charm) ==
    IF ~MatrixBool(cand[charm]) THEN stab[charm]
    ELSE IF MatrixEq(cand[charm], stab[charm]) THEN stab[charm]
    ELSE cand[charm]

AssembleBundle(cand, stab) == [c \in Charms |-> BundleEntry(cand, stab, c)]

\* mutant: the loop left after the first charm
PromoteFirstOnly(acc, charms, fault, builds) ==
    IF charms = <<>> THEN {acc}
    ELSE {[acc EXCEPT
            !.stable[Head(charms)] = PromoteCharm(acc.reg.cand[Head(charms)], @),
            !.promoted = Append(@, [charm |-> Head(charms), ok |-> TRUE])]}

RECURSIVE PromoteLoop(_, _, _, _)
\* "for charm in bundle_charms: promote_charm(...)": acc = [reg, stable,
\* promoted, error]; the loop ends at the charm whose promotion fails.  Each
\* "charmcraft promote" releases what the candidate channel holds when it
\* runs, and the registry moves between the commands.  The result is the set
\* of the ways the loop can end.
PromoteLoop(acc, charms, fault, builds) ==
    IF charms = <<>> \/ acc.error # "none" THEN {acc}
    ELSE LET charm == Head(charms)
         IN IF fault.kind = "promote" /\ fault.at = charm
            THEN {[acc EXCEPT !.promoted = Append(@, [charm |-> charm, ok |-> FALSE]),
                              !.error = "CharmcraftError"]}
            ELSE UNION {PromoteLoop(n, Tail(charms), fault, builds) :
                           n \in {[acc EXCEPT
                                      !.reg = e,
                                      !.stable[charm] = PromoteCharm(e.cand[charm], @),
                                      !.promoted = Append(@, [charm |-> charm,
                                                              ok |-> TRUE])] :
                                     e \in Publishes(acc.reg, builds)}}

\* what a pass that did not run leaves in the report
NoPass ==
    [ran |-> FALSE, dry_run |-> FALSE, bundle |-> [c \in Charms |-> EmptyMatrix],
     delta |-> {}, testable |-> FALSE, evaluated |-> FALSE,
     fault |-> NoFault, fetched |-> <<>>, looked |-> {}, recorded |-> {},
     resolved |-> [b \in Bases |-> Unvisited], started |-> <<>>,
     state_map |-> EmptyStateMap, promoted |-> <<>>, mid |-> {}, pub |-> {},
     outcome |-> "", error |-> "none"]

\* the outcome process_track maps a track state to (lines 188-202)
StateOutcome(state_map) ==
    IF TrackSucceeded(state_map) THEN PROCESS_SUCCESS
    ELSE IF TrackInProgress(state_map) THEN PROCESS_IN_PROGRESS
    ELSE IF TrackFailed(state_map) THEN PROCESS_FAILED
    ELSE PROCESS_CI_FAILED

\* find_revision answers None to a response that is not 200: the matrix
\* get_revision_matrix builds of such responses is empty
ReadMatrix(matrix, charm, fault) ==
    IF fault.kind = "http" /\ fault.at = charm THEN EmptyMatrix ELSE matrix

\* the charms of bundle_charms before the given one
CharmsBefore(charm) ==
    SelectSeq(BundleCharms,
              LAMBDA c : \E i, j \in DOMAIN BundleCharms :
                            /\ BundleCharms[i] = c /\ BundleCharms[j] = charm
                            /\ i < j)

\* process_track after ensure_track_state ended in e (lines 186-208), the
\* registry being reg since the matrices were read: the set of the ways the
\* call can end
TrackOutcome(seen, e, reg, stab, dry_run, fault, builds) ==
    LET tested == [seen EXCEPT !.evaluated = TRUE,
                               !.resolved = e.resolved,
                               !.looked = e.looked,
                               !.recorded = e.recorded,
                               !.started = e.started,
                               !.state_map = e.state_map,
                               !.mid = e.mid,
                               !.error = e.error]
        outcome == StateOutcome(e.state_map)
        ended(r, stable, report) ==
            [cand |-> r.cand, published |-> r.published, stable |-> stable,
             sqa |-> e.sqa, report |-> [report EXCEPT !.pub = r.pub]]
    IN IF e.error # "none"
       THEN {ended(reg, stab, [tested EXCEPT !.outcome = PROCESS_CI_FAILED])}
       ELSE IF outcome # PROCESS_SUCCESS \/ dry_run
       THEN {ended(reg, stab, [tested EXCEPT !.outcome = outcome])}
       ELSE
        {ended(p.reg, p.stable,
               [tested EXCEPT
                  !.promoted = p.promoted,
                  !.error = p.error,
                  \* "except charmhub.CharmcraftFailure" names no attribute
                  \* of charmhub: the failure of a promotion leaves
                  \* process_track as an exception
                  !.outcome = IF p.error = "none" THEN PROCESS_SUCCESS
                              ELSE RAISED]) :
            p \in PromoteLoop([reg |-> reg, stable |-> stab, promoted |-> <<>>,
                               error |-> "none"],
                              BundleCharms, fault, builds)}

\* candidate_channel = f"{track}/candidate"
CandidateOf(track) == track \o "/candidate"

RECURSIVE FetchCharms(_, _, _, _)
\* "for charm in bundle_charms: candidate_revision_matrix =
\* get_revision_matrix(charm, candidate_channel)" from the i-th charm on:
\* acc = [reg, read], the registry and the matrices read so far.  The
\* requests of a charm follow those of the charm before it, and the registry
\* moves in between.  The result is the set of the readings the loop can end
\* with.
FetchCharms(acc, i, fault, builds) ==
    IF i > Len(BundleCharms) THEN {acc}
    ELSE UNION {FetchCharms(n, i + 1, fault, builds) :
                   n \in {[reg |-> e,
                           read |-> [acc.read EXCEPT ![BundleCharms[i]] =
                                        ReadMatrix(e.cand[BundleCharms[i]],
                                                   BundleCharms[i], fault)]] :
                             e \in IF i = 1 THEN {acc.reg}
                                   ELSE Publishes(acc.reg, builds)}}

\* process_track after the matrices of the charms were read (lines 174-208)
ProcessFetched(track, fetched, stab, sqa, dry_run, ref, pick, order, fault, finals, builds, base) ==
    Bind(AssembleBundle(fetched.read, stab), LAMBDA bundle :
    LET delta == {c \in Charms : HasDelta(fetched.read, stab, c)}
        seen == [base EXCEPT !.bundle = bundle, !.delta = delta,
                             !.fetched = BundleCharms,
                             !.pub = fetched.reg.pub,
                             !.testable = BundleIsTestable(bundle, ref)]
        same(report) ==
            {[cand |-> fetched.reg.cand, published |-> fetched.reg.published,
              stable |-> stab, sqa |-> sqa, report |-> report]}
    IN IF ~seen.testable THEN same([seen EXCEPT !.outcome = PROCESS_UNCHANGED])
       ELSE IF delta = {} THEN same([seen EXCEPT !.outcome = PROCESS_UNCHANGED])
       ELSE UNION {TrackOutcome(seen, e, fetched.reg, stab, dry_run, fault,
                                builds) :
                      e \in EnsureTrackState(sqa, CandidateOf(track), bundle,
                                             dry_run, pick, order, fault, finals)})

\* One pass of process_track for a track over the registry (cand, stab, the
\* number of builds published) and the test service.  ref and pick are the
\* charms random.choice picks in is_testable and in get_archs/get_bases, order
\* the iteration order of the bases, finals the statuses in which the service
\* can leave an instance that finishes while the pass is between two of its
\* commands, builds the builds that can be published meanwhile.  The result
\* is the set of the ways the pass can end: the world afterwards and the
\* report of the pass.
ProcessTrack(track, cand, published, stab, sqa, dry_run, ref, pick, order, fault, finals, builds) ==
    LET base == [NoPass EXCEPT !.ran = TRUE, !.dry_run = dry_run,
                               !.fault = fault]
    IN IF fault.kind = "registry"
       \* requests raises ConnectionError or Timeout, which "except HTTPError"
       \* does not catch
       THEN {[cand |-> cand, published |-> published, stable |-> stab,
              sqa |-> sqa,
              report |-> [base EXCEPT !.outcome = RAISED,
                                      !.error = "ConnectionError",
                                      !.fetched = CharmsBefore(fault.at)]]}
       ELSE UNION {ProcessFetched(track, f, stab, sqa, dry_run, ref, pick,
                                  order, fault, finals, builds, base) :
                      f \in FetchCharms([reg |-> [cand |-> cand,
                                                  published |-> published,
                                                  pub |-> {}],
                                         read |-> [c \in Charms |-> EmptyMatrix]],
                                        1, fault, builds)}

(***************************************************************************)
(* main of charm_release.py.  results is the dict of main in the order of  *)
(* its keys; a line [key, value] of results.txt stands for "key=value".    *)
(***************************************************************************)
\* mutant: no outcome is left out of the results
SkippedNone(process_state) == FALSE

\* "if process_state in [PROCESS_IN_PROGRESS, PROCESS_UNCHANGED]: continue"
Skipped(process_state) ==
    process_state \in {PROCESS_IN_PROGRESS, PROCESS_UNCHANGED}

\* results[f"{track}"] = str(process_state): a key set again keeps its place
ResultsPut(results, key, value) ==
    IF \E i \in DOMAIN results : results[i].key = key
    THEN [i \in DOMAIN results |->
            IF results[i].key = key THEN [key |-> key, value |-> value]
            ELSE results[i]]
    ELSE Append(results, [key |-> key, value |-> value])

\* what main does with the way r the process_track call of a track ended:
\* acc = [results, raised, outcomes, cand, published, stab, sqa], the dict of
\* main, the outcomes of the calls made and the world they left
MainStep(acc, track, r) ==
    LET world == [acc EXCEPT !.cand[track] = r.cand,
                             !.published = r.published,
                             !.stab[track] = r.stable, !.sqa = r.sqa,
                             !.outcomes = Append(@, r.report.outcome)]
        process_state == r.report.outcome
    IN IF process_state = RAISED THEN [world EXCEPT !.raised = TRUE]
       ELSE IF Skipped(process_state) THEN world
       ELSE [world EXCEPT !.results = ResultsPut(@, track, process_state)]

\* the ways the process_track call of main for tracks[i] can end: the
\* registry moves before the call, random.choice picks a charm in
\* is_testable, and the set of bases is iterated in one of its orders
MainCall(acc, track, dry_run, fault, finals, builds) ==
    UNION {ProcessTrack(track, c.reg.cand, c.reg.published, acc.stab[track],
                        acc.sqa, dry_run, c.ref, c.ref, c.order, fault,
                        finals, builds) :
              c \in {[reg |-> e, ref |-> ref, order |-> o] :
                        e \in Publishes([cand |-> acc.cand[track],
                                         published |-> acc.published,
                                         pub |-> {}], builds),
                        ref \in Charms,
                        o \in {q \in [1..Cardinality(Bases) -> Bases] :
                                 \A x, y \in DOMAIN q : x # y => q[x] # q[y]}}}

RECURSIVE MainLoop(_, _, _, _, _, _, _)
\* "for track in tracks: process_state = process_track(args.charms, track,
\* args.dry_run)": an exception that leaves process_track leaves main.  fault
\* is [at, fault]: the call for tracks[at] meets the fault.  The result is the
\* set of the ways the loop can end.
MainLoop(acc, tracks, i, dry_run, fault, finals, builds) ==
    IF i > Len(tracks) \/ acc.raised THEN {acc}
    ELSE UNION {MainLoop(n, tracks, i + 1, dry_run, fault, finals, builds) :
                   n \in {MainStep(acc, tracks[i], r) :
                             r \in MainCall(acc, tracks[i], dry_run,
                                            IF fault.at = i THEN fault.fault
                                            ELSE NoFault,
                                            finals, builds)}}

\* main after the parsing of its arguments (lines 235-253) over the registry
\* (cand, stab: the matrices of the channels of every track; published: the
\* number of builds published) and the test service: the set of [report,
\* cand, published, stab, sqa] it can end in
Main(tracks, dry_run, cand, published, stab, sqa, fault, finals, builds) ==
    LET report == [called |-> TRUE, outcomes |-> <<>>,
                   raised |-> FALSE, written |-> FALSE, lines |-> <<>>]
        ended(done) ==
            [cand |-> done.cand, published |-> done.published,
             stab |-> done.stab, sqa |-> done.sqa,
             report |-> IF done.raised
                        THEN [report EXCEPT !.raised = TRUE,
                                            !.outcomes = done.outcomes]
                        ELSE [report EXCEPT !.written = TRUE,
                                            !.outcomes = done.outcomes,
                                            !.lines = done.results]]
    IN IF tracks = <<>>
       THEN {[cand |-> cand, published |-> published, stab |-> stab,
              sqa |-> sqa, report |-> report]}
       ELSE {ended(done) :
                done \in MainLoop([results |-> <<>>, raised |-> FALSE,
                                   outcomes |-> <<>>, cand |-> cand,
                                   published |-> published,
                                   stab |-> stab, sqa |-> sqa],
                                  tracks, 1, dry_run, fault, finals, builds)}

(***************************************************************************)
(* create_proposal of promote_tracks.py.  An entry of the channel map is   *)
(* [track, risk, arch, revision, version, released_at]; a channel name     *)
(* "track/risk" is the pair <<track, risk>>; times are in hours.           *)
(***************************************************************************)
RISK_LEVELS == <<"edge", "beta", "candidate", "stable">>

\* None of NEXT_RISK
NoRisk == "None"

RiskIndex(risk) == CHOOSE i \in DOMAIN RISK_LEVELS : RISK_LEVELS[i] = risk

\* mutant: the risk level two rungs up
NextRiskSkipping(risk) ==
    IF RiskIndex(risk) + 1 < Len(RISK_LEVELS) THEN RISK_LEVELS[RiskIndex(risk) + 2]
    ELSE NoRisk

\* NEXT_RISK[RISK_LEVELS.index(risk)]
NEXT_RISK(risk) ==
    IF RiskIndex(risk) < Len(RISK_LEVELS) THEN RISK_LEVELS[RiskIndex(risk) + 1]
    ELSE NoRisk

\* mutant: no track is ignored
IgnoreNoTrack == {}

IGNORE_TRACKS == {"latest"}

DAYS_TO_STAY_IN_RISK ==
    [r \in {"edge", "beta", "candidate"} |->
        CASE r = "edge" -> 1 [] r = "beta" -> 3 [] r = "candidate" -> 5]

\* an entry without "released-at"
NoTime == -1

\* the version of a channel that is not in the map (None)
NoSnapVersion == "None"

\* (now - released_at_date).days: the whole days of the difference
Days(now, released_at) == (now - released_at) \div 24

\* channels = {c["channel"]["name"]: c for c in channel-map}: the last entry
\* of a name is the one the dict keeps
Channels(channel_map) ==
    [n \in {<<channel_map[i].track, channel_map[i].risk>> : i \in DOMAIN channel_map} |->
        channel_map[CHOOSE i \in DOMAIN channel_map :
                       /\ <<channel_map[i].track, channel_map[i].risk>> = n
                       /\ \A j \in DOMAIN channel_map :
                             <<channel_map[j].track, channel_map[j].risk>> = n => j <= i]]

\* channels.get(name, {}).get("revision")
ChannelRevision(channels, name) ==
    IF name \in DOMAIN channels THEN channels[name].revision ELSE NoRev

\* channels.get(name, {}).get("version")
ChannelVersion(channels, name) ==
    IF name \in DOMAIN channels THEN channels[name].version ELSE NoSnapVersion

\* the tracks and the keys (track, risk index) of the map in reverse order
TracksReversed == <<"tracky", "latest">>
KeysReversed ==
    [i \in 1..(Len(TracksReversed) * Len(RISK_LEVELS)) |->
        <<TracksReversed[((i - 1) \div Len(RISK_LEVELS)) + 1],
          RISK_LEVELS[Len(RISK_LEVELS) - ((i - 1) % Len(RISK_LEVELS))]>>]

RECURSIVE SortedReversed(_, _)
\* sorted(channel-map, key=sorter, reverse=True): entries of equal key keep
\* their order
SortedReversed(channel_map, keys) ==
    IF keys = <<>> THEN <<>>
    ELSE SelectSeq(channel_map, LAMBDA c : <<c.track, c.risk>> = Head(keys))
         \o SortedReversed(channel_map, Tail(keys))

\* mutant: the dwell time must be exceeded, not just reached
DwellElapsedStrict(days, risk) == days > DAYS_TO_STAY_IN_RISK[risk]

\* "(now - released_at_date).days >= DAYS_TO_STAY_IN_RISK[risk]"
DwellElapsed(days, risk) == days >= DAYS_TO_STAY_IN_RISK[risk]

PurgatoryComplete(channels, c, now) ==
    /\ c.released_at # NoTime
    /\ DwellElapsed(Days(now, c.released_at), c.risk)
    /\ ChannelRevision(channels, <<c.track, c.risk>>)
          # ChannelRevision(channels, <<c.track, NEXT_RISK(c.risk)>>)

NewPatchInEdge(channels, c) ==
    /\ c.risk = "edge"
    /\ ChannelVersion(channels, <<c.track, NEXT_RISK(c.risk)>>)
          # ChannelVersion(channels, <<c.track, c.risk>>)

\* the proposal of an entry (branch, runner labels and images left out)
Proposal(c) ==
    [name |-> [track |-> c.track, next_risk |-> NEXT_RISK(c.risk), arch |-> c.arch],
     revision |-> c.revision,
     snap_channel |-> <<c.track, NEXT_RISK(c.risk)>>,
     upgrade_channels |-> <<<<c.track, NEXT_RISK(c.risk)>>, <<c.track, c.risk>>>>]

\* "now = datetime.datetime.now(datetime.timezone.utc)" of a loop turn: the
\* clock is read, and the entry and the time read are kept in reads
ClockRead(acc, c, now) ==
    [acc EXCEPT !.reads = Append(@, [entry |-> c, now |-> now])]

\* mutant: the loop body without the check for a stable entry of the track
ProposalStepUngated(acc, channels, c, now) ==
    IF NEXT_RISK(c.risk) = NoRisk THEN acc
    ELSE IF c.track \in IGNORE_TRACKS THEN acc
    ELSE IF PurgatoryComplete(channels, c, now) \/ NewPatchInEdge(channels, c)
    THEN [ClockRead(acc, c, now) EXCEPT !.proposals = Append(@, Proposal(c))]
    ELSE ClockRead(acc, c, now)

\* the body of the loop of create_proposal for one entry, with now the time
\* the clock gives in this turn; acc is [proposals, approvals, reads].  A
\* skipped entry reads no clock.
ProposalStep(acc, channels, c, now) ==
    IF NEXT_RISK(c.risk) = NoRisk THEN acc
    ELSE IF c.track \in IGNORE_TRACKS THEN acc
    ELSE IF PurgatoryComplete(channels, c, now) \/ NewPatchInEdge(channels, c)
    THEN IF NEXT_RISK(c.risk) = "stable" /\ <<c.track, "stable">> \notin DOMAIN channels
         THEN [ClockRead(acc, c, now) EXCEPT !.approvals = Append(@, c)]
         ELSE [ClockRead(acc, c, now) EXCEPT !.proposals = Append(@, Proposal(c))]
    ELSE ClockRead(acc, c, now)

RECURSIVE ProposalLoop(_, _, _, _)
\* the loop of create_proposal: every turn reads the wall clock anew, which
\* gives any of the times of clocks (it moves on between the turns, and the
\* system may set it back); the set of the results over the readings
ProposalLoop(acc, channels, entries, clocks) ==
    IF entries = <<>> THEN {acc}
    ELSE UNION {ProposalLoop(n, channels, Tail(entries), clocks) :
                   n \in {ProposalStep(acc, channels, Head(entries), now) :
                             now \in clocks}}

\* create_proposal over the channel map snapstore.info returned, with the
\* clock within clocks while it runs
CreateProposal(channel_map, clocks) ==
    ProposalLoop([proposals |-> <<>>, approvals |-> <<>>, reads |-> <<>>],
                 Channels(channel_map),
                 SortedReversed(channel_map, KeysReversed), clocks)

(***************************************************************************)
(* State.                                                                  *)
(***************************************************************************)
VARIABLES
    candidate,   \* registry: charm -> matrix of <track>/candidate
    stable,      \* registry: charm -> matrix of <track>/stable
    published,   \* number of revisions the environment published
    sqa,         \* the test service's records
    last,        \* report of the pass just made (NoPass after an external change)
    prev,        \* report of the pass made right before it, nothing in between
    ts,          \* SpecTrackState: a TrackState under set_state calls
    query,       \* SpecResolver: the call of the status resolver just made
    snap,        \* the snap store's channels and the release_revision call just made
    tested,      \* SpecBundle: the call of Bundle.is_testable just made
    bun,         \* SpecVersion: a Bundle under set calls and its get_version call
    procs,       \* SpecConcurrent: the position of each release run in its pass
    hub,         \* SpecHub: Charmhub's responses and the get_revision_matrix call
    run,         \* SpecMain: the tracks of a run of main and its results file
    prop,        \* SpecProposal: the snap's channel map and the create_proposal call
    mat,         \* SpecMatrix: two RevisionMatrix objects under set calls, compared
    gen          \* SpecPriority: a PriorityGenerator read by several threads

vars == <<candidate, stable, published, sqa, last, prev, ts, query, snap, tested,
          bun, procs, hub, run, prop, mat, gen>>

\* the variables of the specifications of single functions
aux == <<bun, procs, hub, run, prop, mat, gen>>

\* no current_test_plan_instance_status call: asked says a call was made,
\* lookup is where it stands, moved whether the service changed during it
NoQuery == [asked |-> FALSE, channel |-> "", version |-> NoVersion,
            lookup |-> NewLookup({}), moved |-> FALSE, result |-> NoStatus]

\* a call of current_test_plan_instance_status is between two commands
QueryInFlight == query.asked /\ ~query.lookup.done

\* what a change of the service makes of the call: a call in flight goes on
\* and has seen the service move, the result of a call that returned is
\* forgotten
QueryMoved == IF QueryInFlight THEN [query EXCEPT !.moved = TRUE] ELSE NoQuery

\* util.SNAP_NAME released to no channel, and no release_revision call yet
NoSnap ==
    [store |-> [ch \in {CandidateChannel, StableChannel} |-> NoRev],
     call |-> [made |-> FALSE, dry_run |-> FALSE, revision |-> NoRev,
               channel |-> "", before |-> NoRev, command |-> FALSE]]

\* no is_testable call yet
NoTest == [asked |-> FALSE, data |-> <<>>, ref |-> "", result |-> FALSE]

\* a new Bundle and no get_version call yet
NoBundleCall ==
    [keys |-> EmptyBundle.keys, data |-> EmptyBundle.data,
     asked |-> FALSE, arch |-> "", base |-> "", version |-> NoVersion]

\* the release runs that can overlap and where each starts its pass
Runs == {1, 2}
NoRun == [pc |-> "check", lookup |-> NewLookup({}), status |-> NoStatus,
          product_version |-> 0, addon |-> 0, raised |-> FALSE]

\* no get_revision_matrix call
NoHub == [asked |-> FALSE, responses |-> <<>>, matrix |-> EmptyMatrix,
          raised |-> FALSE]

\* the tracks main can be given, and those whose channels are not held by
\* the variables candidate and stable
TrackNames == {"1.32", "1.33", "1.34"}
OtherTracks == TrackNames \ {Track}

\* no process_track call of main meets a fault
NoFaultAt == [at |-> 0, fault |-> NoFault]

\* no run of main: no results.txt.  others holds the matrices of the channels
\* of the other tracks.
NoMain == [called |-> FALSE, tracks |-> <<>>, dry_run |-> FALSE,
           fault |-> NoFaultAt, outcomes |-> <<>>,
           raised |-> FALSE, written |-> FALSE, lines |-> <<>>,
           others |-> [t \in OtherTracks |->
                         [candidate |-> [c \in Charms |-> EmptyMatrix],
                          stable |-> [c \in Charms |-> EmptyMatrix]]]]

\* no create_proposal call
NoProposal == [called |-> FALSE, channel_map |-> <<>>, now |-> 0,
               proposals |-> <<>>, approvals |-> <<>>, reads |-> <<>>]

\* two empty matrices, not compared yet
NoMatrices ==
    [left |-> EmptyMatrix, right |-> EmptyMatrix, calls |-> <<>>,
     compared |-> FALSE, result |-> FALSE]

\* no PriorityGenerator yet
NoGenerator ==
    [initial |-> 0, value |-> 0, lock |-> 0, th |-> <<>>]

InitMore ==
    /\ mat = NoMatrices
    /\ gen = NoGenerator

InitAux ==
    /\ bun = NoBundleCall
    /\ procs = [r \in Runs |-> NoRun]
    /\ hub = NoHub
    /\ run = NoMain
    /\ prop = NoProposal
    /\ InitMore

Orders == {o \in [1..Cardinality(Bases) -> Bases] :
              \A i, j \in DOMAIN o : i # j => o[i] # o[j]}

\* the registry, the test service and the snap store before any call
InitCore ==
    /\ candidate = [c \in Charms |-> EmptyMatrix]
    /\ stable = [c \in Charms |-> EmptyMatrix]
    /\ published = 0
    /\ sqa = EmptySQA
    /\ last = NoPass
    /\ prev = NoPass
    /\ ts = EmptyStateMap
    /\ query = NoQuery
    /\ snap = NoSnap
    /\ tested = NoTest

Init ==
    /\ InitCore
    /\ InitAux

(***************************************************************************)
(* The environment of the reconciler.                                      *)
(***************************************************************************)
\* the cells builds are published for, and the sets of charms one build
\* publishes a revision of
PublishCells == {<<"amd64", "20.04">>, <<"amd64", "22.04">>, <<"arm64", "22.04">>}
PublishSets == {Charms, {"k8s-worker"}}

\* the builds of the environment
Builds ==
    {[charms |-> cs, arch |-> k[1], base |-> k[2], revision |-> r] :
        cs \in PublishSets, k \in PublishCells, r \in Revs}

\* the registry does not move
NoBuilds == {}

\* a build publishes a new (higher) revision of some charms of the bundle to
\* <track>/candidate for one (arch, base)
Publish(charms, arch, base, revision) ==
    /\ \E b \in {[charms |-> charms, arch |-> arch, base |-> base,
                   revision |-> revision]} :
          /\ NewBuild(candidate, published, b)
          /\ candidate' = AfterBuild(candidate, b)
    /\ published' = published + 1
    /\ last' = NoPass
    /\ prev' = NoPass
    /\ UNCHANGED <<stable, sqa, ts, query, snap, tested, aux>>

\* the test service finishes a running test-plan-instance
TestFinishes(tpi, status) ==
    /\ tpi \in sqa.tpis
    /\ tpi.status = IN_PROGRESS
    /\ sqa' = [sqa EXCEPT !.tpis = (@ \ {tpi}) \cup {[tpi EXCEPT !.status = status]}]
    /\ query' = QueryMoved
    /\ last' = NoPass
    /\ prev' = NoPass
    /\ UNCHANGED <<candidate, stable, published, ts, snap, tested, aux>>

(***************************************************************************)
(* One scheduled pass of the reconciler for the track.                     *)
(***************************************************************************)
Pass(dry_run, ref, pick, order, fault, finals, builds) ==
    \E r \in ProcessTrack(Track, candidate, published, stable, sqa, dry_run, ref,
                          pick, order, fault, finals, builds) :
       /\ Cardinality(r.sqa.tpis) <= MaxRecords
       /\ Cardinality(r.sqa.addons) <= MaxRecords
       /\ candidate' = r.cand
       /\ published' = r.published
       /\ stable' = r.stable
       /\ sqa' = r.sqa
       /\ last' = r.report
       /\ prev' = last
       /\ UNCHANGED <<ts, query, snap, tested, aux>>

\* the statuses a finished test-plan-instance is left in
FinalStatuses == {PASSED, FAILED, ERROR}

\* random.choice picks one matrix in is_testable, get_archs and get_bases; the
\* latter two run on a testable bundle only, whose matrices all have the same
\* architectures and bases, so one choice stands for the three.  Over a
\* release whose matrices are the same for every charm the choice changes
\* nothing, and over a release of one cell neither does the order of the
\* bases: the specifications of such releases fix them.
Next ==
    \/ \E cs \in PublishSets, k \in PublishCells, r \in Revs :
          Publish(cs, k[1], k[2], r)
    \/ \E t \in sqa.tpis, s \in FinalStatuses : TestFinishes(t, s)
    \/ \E d \in BOOLEAN, ref \in Charms, o \in Orders :
          Pass(d, ref, ref, o, NoFault, FinalStatuses, Builds)

Spec == Init /\ [][Next]_vars


(***************************************************************************)
(* SpecFaults: the passes over a one-cell release when a command of the    *)
(* registry, of the test service or of the promotion can fail.             *)
(***************************************************************************)
FaultsRelease == [k \in {<<"amd64", "22.04">>} |-> 1]

InitFaults ==
    /\ candidate = [c \in Charms |-> FaultsRelease]
    /\ stable = [c \in Charms |-> EmptyMatrix]
    /\ published = MaxPublish
    /\ sqa = EmptySQA
    /\ last = NoPass
    /\ prev = NoPass
    /\ ts = EmptyStateMap
    /\ query = NoQuery
    /\ snap = NoSnap
    /\ tested = NoTest
    /\ InitAux

\* the faults that can happen in a pass over the release: a command of the
\* test service fails at a base the release has a cell for
ReleaseFaults ==
    {f \in Faults : f.kind \in {"status", "start"}
                       => f.at \in MatrixBases(FaultsRelease)}

NextFaults ==
    \/ \E t \in sqa.tpis, s \in FinalStatuses : TestFinishes(t, s)
    \/ \E d \in BOOLEAN, f \in ReleaseFaults :
          Pass(d, "k8s", "k8s", <<"20.04", "22.04">>, f, FinalStatuses, NoBuilds)

SpecFaults == InitFaults /\ [][NextFaults]_vars

(***************************************************************************)
(* SpecStart: the passes over the one-cell release of SpecFaults in which  *)
(* a command of the test service may fail for the cell: the status query   *)
(* or any command of start_release_test.                                   *)
(***************************************************************************)
InitStart == InitFaults

StartFaults ==
    {NoFault}
    \cup {[kind |-> "status", at |-> b, step |-> ""] : b \in MatrixBases(FaultsRelease)}
    \cup {[kind |-> "start", at |-> b, step |-> s] :
             b \in MatrixBases(FaultsRelease), s \in StartSteps}

NextStart ==
    \/ \E t \in sqa.tpis, s \in FinalStatuses : TestFinishes(t, s)
    \/ \E d \in BOOLEAN, f \in StartFaults :
          Pass(d, "k8s", "k8s", <<"20.04", "22.04">>, f, FinalStatuses, NoBuilds)

SpecStart == InitStart /\ [][NextStart]_vars

(***************************************************************************)
(* SpecDryRun: the passes over a release, dry-run or not, and the          *)
(* release_revision calls of promote_tracks.py.                            *)
(***************************************************************************)
\* mutant: the release command run whatever --dry-run says
ReleaseRevisionAlways(store, revision, channel, dry_run) ==
    [store |-> [store EXCEPT ![channel] = revision],
     call |-> [made |-> TRUE, dry_run |-> dry_run, revision |-> revision,
               channel |-> channel, before |-> store[channel],
               command |-> TRUE]]

\* release_revision: "args.dry_run or subprocess.run([snapcraft release ...])"
ReleaseRevision(store, revision, channel, dry_run) ==
    [store |-> IF dry_run THEN store ELSE [store EXCEPT ![channel] = revision],
     call |-> [made |-> TRUE, dry_run |-> dry_run, revision |-> revision,
               channel |-> channel, before |-> store[channel],
               command |-> ~dry_run]]

DryRunRelease ==
    [k \in {<<"amd64", "20.04">>, <<"amd64", "22.04">>} |->
        IF k[2] = "20.04" THEN 1 ELSE 2]

InitDryRun ==
    /\ candidate = [c \in Charms |-> DryRunRelease]
    /\ stable = [c \in Charms |-> EmptyMatrix]
    /\ published = MaxPublish
    /\ sqa = EmptySQA
    /\ last = NoPass
    /\ prev = NoPass
    /\ ts = EmptyStateMap
    /\ query = NoQuery
    /\ snap = NoSnap
    /\ tested = NoTest
    /\ InitAux

\* one run of "promote_tracks.py promote" (func=release_revision)
SnapRelease(revision, channel, dry_run) ==
    /\ snap' = ReleaseRevision(snap.store, revision, channel, dry_run)
    /\ UNCHANGED <<candidate, stable, published, sqa, last, prev, ts, query, tested, aux>>

NextDryRun ==
    \/ \E t \in sqa.tpis, s \in FinalStatuses : TestFinishes(t, s)
    \/ \E d \in BOOLEAN, o \in Orders : Pass(d, "k8s", "k8s", o, NoFault, FinalStatuses, NoBuilds)
    \/ \E r \in Revs, ch \in DOMAIN snap.store, d \in BOOLEAN :
          SnapRelease(r, ch, d)

SpecDryRun == InitDryRun /\ [][NextDryRun]_vars

(***************************************************************************)
(* SpecRegistry: the passes over any content of the candidate channels.    *)
(* SpecLive: the same with scheduled passes (not dry-run) made again and   *)
(* again and every started test passing in the end.                        *)
(***************************************************************************)
\* the matrices get_revision_matrix can build over the published cells
ReleaseMatrices == UNION {[S -> Revs] : S \in SUBSET PublishCells}

InitRegistry ==
    /\ candidate \in [Charms -> ReleaseMatrices]
    /\ stable = [c \in Charms |-> EmptyMatrix]
    /\ published = 0
    /\ sqa = EmptySQA
    /\ last = NoPass
    /\ prev = NoPass
    /\ ts = EmptyStateMap
    /\ query = NoQuery
    /\ snap = NoSnap
    /\ tested = NoTest
    /\ InitAux

\* the tests of SpecRegistry pass, between two passes or during one
NextRegistry ==
    \/ \E t \in sqa.tpis : TestFinishes(t, PASSED)
    \/ \E d \in BOOLEAN, ref \in Charms, o \in Orders :
          Pass(d, ref, ref, o, NoFault, {PASSED}, NoBuilds)

SpecRegistry == InitRegistry /\ [][NextRegistry]_vars

(***************************************************************************)
(* SpecRecovery: the passes that release registry contents of              *)
(* SpecRegistry, with promote_charm failing for any one charm of a pass.   *)
(***************************************************************************)
\* the releases of SpecRecovery: revision 1 for every cell but (amd64, 22.04),
\* whose revision is 1 or 2
RecoveryMatrices ==
    {m \in ReleaseMatrices :
        \A k \in DOMAIN m : k # <<"amd64", "22.04">> => m[k] = 1}

InitRecovery ==
    /\ InitRegistry
    /\ candidate \in [Charms -> RecoveryMatrices]

PromoteFaults == {[kind |-> "promote", at |-> c, step |-> ""] : c \in Charms}

NextRecovery ==
    \/ \E t \in sqa.tpis : TestFinishes(t, PASSED)
    \/ \E ref \in Charms, o \in Orders, f \in {NoFault} \cup PromoteFaults :
          Pass(FALSE, ref, ref, o, f, {PASSED}, NoBuilds)

SpecRecovery == InitRecovery /\ [][NextRecovery]_vars

\* a started test reports PASSED
TestPasses == \E t \in sqa.tpis : TestFinishes(t, PASSED)

\* the scheduled run of the release job
ScheduledPass == \E ref \in Charms, o \in Orders : Pass(FALSE, ref, ref, o, NoFault, {PASSED}, NoBuilds)

NextLive == TestPasses \/ ScheduledPass

SpecLive ==
    /\ InitRegistry
    /\ [][NextLive]_vars
    /\ WF_vars(TestPasses)
    /\ WF_vars(ScheduledPass)

(***************************************************************************)
(* SpecBundle: Bundle.is_testable over the bundles of up to two charms,    *)
(* compared with any of the matrices random.choice can pick.               *)
(***************************************************************************)
\* the bundles: some charms set, each to a matrix or to None
BundleData ==
    UNION {[D -> ReleaseMatrices \cup {NoMatrix}] : D \in SUBSET Charms}

\* a bundle and the charm whose matrix random.choice picks
InitBundle ==
    /\ candidate = [c \in Charms |-> EmptyMatrix]
    /\ stable = [c \in Charms |-> EmptyMatrix]
    /\ published = 0
    /\ sqa = EmptySQA
    /\ last = NoPass
    /\ prev = NoPass
    /\ ts = EmptyStateMap
    /\ query = NoQuery
    /\ snap = NoSnap
    /\ InitAux
    /\ \E data \in BundleData :
          \E ref \in (IF DOMAIN data = {} THEN {""} ELSE DOMAIN data) :
             tested = [asked |-> FALSE, data |-> data, ref |-> ref,
                       result |-> FALSE]

\* bundle.is_testable()
IsTestable ==
    /\ ~tested.asked
    /\ tested' = [tested EXCEPT !.asked = TRUE,
                                !.result = BundleIsTestable(tested.data, tested.ref)]
    /\ UNCHANGED <<candidate, stable, published, sqa, last, prev, ts, query, snap, aux>>

NextBundle == IsTestable

SpecBundle == InitBundle /\ [][NextBundle]_vars

(***************************************************************************)
(* SpecTrackState: a TrackState under any sequence of set_state calls.     *)
(***************************************************************************)
InitTrackState == Init

TsSetState(key, state) ==
    /\ ts' = SetState(ts, key, state)
    /\ UNCHANGED <<candidate, stable, published, sqa, last, prev, query, snap, tested, aux>>

NextTrackState == \E k \in 1..MaxKeys, s \in Statuses : TsSetState(k, s)

SpecTrackState == InitTrackState /\ [][NextTrackState]_vars

(***************************************************************************)
(* SpecResolver: current_test_plan_instance_status over the records the    *)
(* test service can hold for one version key in the track's channels.      *)
(***************************************************************************)
InitResolver == Init

ResolverChannels == {CandidateChannel, StableChannel}
ResolverVersion ==
    [name |-> BundleName,
     parts |-> <<[charm |-> "k8s", revision |-> 1],
                 [charm |-> "k8s-worker", revision |-> 1]>>]
\* the statuses the records of the test service are given
ServiceStatuses == {PASSED, IN_PROGRESS, FAILED, ERROR, ABORTED}

\* productversion add (by _create_product_version or by an operator)
SvcAddProductVersion(channel, base) ==
    /\ Cardinality(sqa.pvs) < MaxRecords
    /\ sqa' = [sqa EXCEPT !.pvs = @ \cup
                  {NewProductVersion(sqa, channel, base, ResolverVersion)}]
    /\ query' = QueryMoved
    /\ last' = NoPass
    /\ prev' = NoPass
    /\ UNCHANGED <<candidate, stable, published, ts, snap, tested, aux>>

\* a test-plan-instance of a product version, in the status its run left it
SvcAddTestPlanInstance(pv, status) ==
    /\ pv \in sqa.pvs
    /\ Cardinality(sqa.tpis) < MaxRecords
    /\ sqa' = [sqa EXCEPT !.tpis = @ \cup
                  {[NewTestPlanInstance(sqa, pv.id, 0) EXCEPT !.status = status]}]
    /\ query' = QueryMoved
    /\ last' = NoPass
    /\ prev' = NoPass
    /\ UNCHANGED <<candidate, stable, published, ts, snap, tested, aux>>

\* current_test_plan_instance_status(channel, version) is called: its
\* "productversion list" command (lines 175-178)
Resolve(channel, version) ==
    /\ ~QueryInFlight
    /\ query' = [asked |-> TRUE, channel |-> channel, version |-> version,
                 lookup |-> NewLookup(ProductVersions(sqa, channel, version)),
                 moved |-> FALSE, result |-> NoStatus]
    /\ UNCHANGED <<candidate, stable, published, sqa, last, prev, ts, snap, tested, aux>>

\* the next "testplaninstance list" command of the call (lines 180-199); the
\* call returns after the last of them
ResolveLookup ==
    /\ QueryInFlight
    /\ \E q \in {LookupStep(query.lookup, sqa)} :
          query' = [query EXCEPT !.lookup = q, !.result = q.result]
    /\ UNCHANGED <<candidate, stable, published, sqa, last, prev, ts, snap, tested, aux>>

NextResolver ==
    \/ \E ch \in ResolverChannels : SvcAddProductVersion(ch, "22.04")
    \/ \E pv \in sqa.pvs, s \in ServiceStatuses : SvcAddTestPlanInstance(pv, s)
    \/ \E t \in sqa.tpis, s \in FinalStatuses : TestFinishes(t, s)
    \/ \E ch \in ResolverChannels : Resolve(ch, ResolverVersion)
    \/ ResolveLookup

SpecResolver == InitResolver /\ [][NextResolver]_vars

(***************************************************************************)
(* SpecService: the passes over a one-cell release whose version key is    *)
(* ResolverVersion, against a test service that holds records made by      *)
(* others before (product versions of the key, instances in any status).   *)
(***************************************************************************)
\* the test service after the SvcAddProductVersion and SvcAddTestPlanInstance
\* steps others took
ServiceContents ==
    {[pvs |-> {[id |-> i, channel |-> ch[i], version |-> ResolverVersion,
                series |-> "22.04"] : i \in DOMAIN ch},
      addons |-> {},
      tpis |-> {[id |-> k, pv |-> of[k].pv, addon |-> 0, status |-> of[k].status] :
                   k \in DOMAIN of}] :
        ch \in UNION {[1..n -> ResolverChannels] : n \in 0..MaxRecords},
        of \in UNION {[1..m -> [pv : 1..MaxRecords, status : ServiceStatuses]] :
                         m \in 0..(MaxRecords - 1)}}

InitService ==
    /\ candidate = [c \in Charms |-> FaultsRelease]
    /\ stable = [c \in Charms |-> EmptyMatrix]
    /\ published = MaxPublish
    /\ sqa \in {s \in ServiceContents :
                   \A t \in s.tpis : \E p \in s.pvs : p.id = t.pv}
    /\ last = NoPass
    /\ prev = NoPass
    /\ ts = EmptyStateMap
    /\ query = NoQuery
    /\ snap = NoSnap
    /\ tested = NoTest
    /\ InitAux

NextService ==
    \/ \E t \in sqa.tpis, s \in FinalStatuses : TestFinishes(t, s)
    \/ \E d \in BOOLEAN :
          Pass(d, "k8s", "k8s", <<"20.04", "22.04">>, NoFault, FinalStatuses, NoBuilds)

SpecService == InitService /\ [][NextService]_vars

(***************************************************************************)
(* SpecConcurrent: two release runs whose passes over the same one-cell    *)
(* release overlap.  Each run goes through the commands of                 *)
(* ensure_track_state and start_release_test for the cell one at a time;   *)
(* the commands of the two runs interleave in any order.                   *)
(***************************************************************************)
InitConcurrent == InitFaults

\* the variables a command of a run leaves alone
RunFrame == <<candidate, stable, published, last, prev, ts, query, snap,
              tested, bun, hub, run, prop, mat, gen>>

\* _product_versions(channel, version) of current_test_plan_instance_status
\* (lines 175-178) and "if not current_test_plan_instance_status" (line 118)
\* when no product version is found
RunCheck(r) ==
    /\ procs[r].pc = "check"
    /\ \E q \in {NewLookup(ProductVersions(sqa, CandidateChannel, ResolverVersion))} :
          procs' = [procs EXCEPT ![r].lookup = q,
                                 ![r].pc = IF q.done THEN "list"
                                           ELSE "check_tpis"]
    /\ UNCHANGED <<sqa, RunFrame>>

\* one "testplaninstance list" command of current_test_plan_instance_status
\* (lines 180-199); after the last one, "if not
\* current_test_plan_instance_status" (line 118)
RunCheckInstances(r) ==
    /\ procs[r].pc = "check_tpis"
    /\ \E q \in {LookupStep(procs[r].lookup, sqa)} :
          procs' = [procs EXCEPT ![r].lookup = q,
                                 ![r].status = q.result,
                                 ![r].pc = IF ~q.done THEN "check_tpis"
                                           ELSE IF q.result = NoStatus THEN "list"
                                           ELSE "done"]
    /\ UNCHANGED <<sqa, RunFrame>>

\* _product_versions(channel, version) of start_release_test, lines 253-264
RunListProductVersions(r) ==
    /\ procs[r].pc = "list"
    /\ \E found \in {ProductVersions(sqa, CandidateChannel, ResolverVersion)} :
          procs' = IF Ambiguous(found)
                   THEN [procs EXCEPT ![r].raised = TRUE, ![r].pc = "done"]
                   ELSE IF found = {}
                   THEN [procs EXCEPT ![r].pc = "create_pv"]
                   ELSE [procs EXCEPT
                            ![r].product_version = (CHOOSE p \in found : TRUE).id,
                            ![r].pc = "get_addon"]
    /\ UNCHANGED <<sqa, RunFrame>>

\* _create_product_version
RunCreateProductVersion(r) ==
    /\ procs[r].pc = "create_pv"
    /\ \E created \in {NewProductVersion(sqa, CandidateChannel, "22.04",
                                          ResolverVersion)} :
          /\ sqa' = [sqa EXCEPT !.pvs = @ \cup {created}]
          /\ procs' = [procs EXCEPT ![r].product_version = created.id,
                                    ![r].pc = "get_addon"]
    /\ UNCHANGED RunFrame

\* _get_addon(version) of _create_addon
RunGetAddon(r) ==
    /\ procs[r].pc = "get_addon"
    /\ \E found \in {{a \in sqa.addons : a.name = ResolverVersion}} :
          procs' = IF Cardinality(found) > 1
                   THEN [procs EXCEPT ![r].raised = TRUE, ![r].pc = "done"]
                   ELSE IF found = {}
                   THEN [procs EXCEPT ![r].pc = "create_addon"]
                   ELSE [procs EXCEPT
                            ![r].addon = (CHOOSE a \in found : TRUE).id,
                            ![r].pc = "create_tpi"]
    /\ UNCHANGED <<sqa, RunFrame>>

\* "addon add" of _create_addon
RunCreateAddon(r) ==
    /\ procs[r].pc = "create_addon"
    /\ \E created \in {NewAddon(sqa, ResolverVersion)} :
          /\ sqa' = [sqa EXCEPT !.addons = @ \cup {created}]
          /\ procs' = [procs EXCEPT ![r].addon = created.id,
                                    ![r].pc = "create_tpi"]
    /\ UNCHANGED RunFrame

\* _create_test_plan_instance
RunCreateTestPlanInstance(r) ==
    /\ procs[r].pc = "create_tpi"
    /\ sqa' = [sqa EXCEPT !.tpis = @ \cup
                  {NewTestPlanInstance(sqa, procs[r].product_version,
                                       procs[r].addon)}]
    /\ procs' = [procs EXCEPT ![r].pc = "done"]
    /\ UNCHANGED RunFrame

NextConcurrent ==
    \E r \in Runs :
       \/ RunCheck(r)
       \/ RunCheckInstances(r)
       \/ RunListProductVersions(r)
       \/ RunCreateProductVersion(r)
       \/ RunGetAddon(r)
       \/ RunCreateAddon(r)
       \/ RunCreateTestPlanInstance(r)

SpecConcurrent == InitConcurrent /\ [][NextConcurrent]_vars

(***************************************************************************)
(* SpecHub: get_revision_matrix over the responses Charmhub can give to    *)
(* the queries of the cells.                                               *)
(***************************************************************************)
HubCells == {QueryOrder[i] : i \in DOMAIN QueryOrder}

\* no answer, 200 with or without a revision, or an HTTP error
Responses ==
    {NoResponse}
    \cup {[answered |-> TRUE, status_code |-> 200, revision |-> r] :
             r \in Revs \cup {NoRev}}
    \cup {[answered |-> TRUE, status_code |-> c, revision |-> NoRev] :
             c \in {404, 500}}

InitHub ==
    /\ InitCore
    /\ InitMore
    /\ bun = NoBundleCall
    /\ procs = [r \in Runs |-> NoRun]
    /\ run = NoMain
    /\ prop = NoProposal
    /\ \E responses \in [HubCells -> Responses] :
          hub = [NoHub EXCEPT !.responses = responses]

\* charmhub.get_revision_matrix(charm, channel)
HubGetRevisionMatrix ==
    /\ ~hub.asked
    /\ \E r \in {GetRevisionMatrix(hub.responses)} :
          hub' = [hub EXCEPT !.asked = TRUE, !.matrix = r.matrix,
                             !.raised = r.raised]
    /\ UNCHANGED <<candidate, stable, published, sqa, last, prev, ts, query,
                   snap, tested, bun, procs, run, prop, mat, gen>>

NextHub == HubGetRevisionMatrix

SpecHub == InitHub /\ [][NextHub]_vars

(***************************************************************************)
(* SpecMain: one run of main over a list of tracks.  Each track of the     *)
(* list is in one of the situations a release goes through; the test       *)
(* service moves while main runs, and one more build is published to the   *)
(* candidate channel of one of the tracks.                                 *)
(***************************************************************************)
TrackLists == UNION {[1..n -> TrackNames] : n \in 0..MaxTracks}

\* unchanged: nothing in candidate; untested: a release in candidate and no
\* test yet; running, passed, failed: the test an earlier pass started
Situations == {"unchanged", "untested", "running", "passed", "failed"}

SituationStatus(situation) ==
    CASE situation = "running" -> IN_PROGRESS
      [] situation = "passed" -> PASSED
      [] situation = "failed" -> FAILED

\* the service after an earlier pass started the test of the track's release
\* and the test got to the status of the situation
SituationService(service, track, situation) ==
    IF situation \in {"unchanged", "untested"} THEN service
    ELSE LET started == StartReleaseTest(service, CandidateOf(track), "22.04",
                                         "amd64", ResolverVersion, "none").sqa
         IN [started EXCEPT !.tpis =
                {IF t \in service.tpis THEN t
                 ELSE [t EXCEPT !.status = SituationStatus(situation)] :
                    t \in started.tpis}]

\* the order the situations of the tracks are set up in
TrackOrder == <<"1.32", "1.33", "1.34">>

RECURSIVE SituationsService(_, _, _)
SituationsService(service, tracks, situation) ==
    IF tracks = <<>> THEN service
    ELSE SituationsService(SituationService(service, Head(tracks), situation[Head(tracks)]),
                           Tail(tracks), situation)

SituationCandidate(situation) ==
    [c \in Charms |-> IF situation = "unchanged" THEN EmptyMatrix
                      ELSE FaultsRelease]

\* the faults a process_track call of main can meet
MainFaults ==
    {NoFaultAt}
    \cup {[at |-> i, fault |-> f] :
             i \in 1..MaxTracks,
             f \in {[kind |-> "status", at |-> "22.04", step |-> ""],
                    [kind |-> "promote", at |-> "k8s-worker", step |-> ""],
                    [kind |-> "registry", at |-> "k8s-worker", step |-> ""]}}

InitMain ==
    /\ InitMore
    /\ bun = NoBundleCall
    /\ procs = [r \in Runs |-> NoRun]
    /\ hub = NoHub
    /\ prop = NoProposal
    /\ published = MaxPublish - 1
    /\ last = NoPass
    /\ prev = NoPass
    /\ ts = EmptyStateMap
    /\ query = NoQuery
    /\ snap = NoSnap
    /\ tested = NoTest
    /\ stable = [c \in Charms |-> EmptyMatrix]
    /\ \E tracks \in TrackLists, dry_run \in BOOLEAN, fault \in MainFaults,
          situation \in [TrackNames -> Situations] :
          /\ fault.at <= Len(tracks)
          /\ \A t \in TrackNames :
                (\A i \in DOMAIN tracks : tracks[i] # t)
                    => situation[t] = "unchanged"
          /\ candidate = SituationCandidate(situation[Track])
          /\ sqa = SituationsService(EmptySQA, TrackOrder, situation)
          /\ run = [NoMain EXCEPT
                      !.tracks = tracks, !.dry_run = dry_run, !.fault = fault,
                      !.others = [t \in OtherTracks |->
                                    [candidate |-> SituationCandidate(situation[t]),
                                     stable |-> [c \in Charms |-> EmptyMatrix]]]]

\* the matrices of the candidate and of the stable channels of every track
CandidateOfTracks ==
    [t \in TrackNames |-> IF t = Track THEN candidate ELSE run.others[t].candidate]
StableOfTracks ==
    [t \in TrackNames |-> IF t = Track THEN stable ELSE run.others[t].stable]

\* the builds published while main runs: revisions for the cell of the
\* releases
MainBuilds == {b \in Builds : b.arch = "amd64" /\ b.base = "22.04"}

\* a build is published to the candidate channel of a track
PublishTo(track, b) ==
    /\ NewBuild(CandidateOfTracks[track], published, b)
    /\ published' = published + 1
    /\ IF track = Track
       THEN /\ candidate' = AfterBuild(candidate, b)
            /\ run' = run
       ELSE /\ candidate' = candidate
            /\ run' = [run EXCEPT !.others[track].candidate = AfterBuild(@, b)]
    /\ UNCHANGED <<stable, sqa, last, prev, ts, query,
                   snap, tested, bun, procs, hub, prop, mat, gen>>

\* charm_release.py --supported-tracks ... [--dry-run]
MainRun ==
    /\ ~run.called
    /\ \E m \in Main(run.tracks, run.dry_run, CandidateOfTracks, published,
                     StableOfTracks, sqa, run.fault, FinalStatuses, MainBuilds) :
          /\ run' = [run EXCEPT
                       !.called = TRUE,
                       !.outcomes = m.report.outcomes,
                       !.raised = m.report.raised,
                       !.written = m.report.written,
                       !.lines = m.report.lines,
                       !.others = [t \in OtherTracks |->
                                     [candidate |-> m.cand[t],
                                      stable |-> m.stab[t]]]]
          /\ candidate' = m.cand[Track]
          /\ published' = m.published
          /\ stable' = m.stab[Track]
          /\ sqa' = m.sqa
    /\ UNCHANGED <<last, prev, ts, query,
                   snap, tested, bun, procs, hub, prop, mat, gen>>

NextMain ==
    \/ MainRun
    \/ \E t \in sqa.tpis, s \in FinalStatuses : TestFinishes(t, s)
    \/ \E i \in DOMAIN run.tracks, b \in MainBuilds : PublishTo(run.tracks[i], b)

SpecMain == InitMain /\ [][NextMain]_vars

(***************************************************************************)
(* SpecProposal: create_proposal over the channel maps of up to two        *)
(* entries, each released now, just before or right at the end of the      *)
(* dwell time of its risk, or without release time.  The clock may move on *)
(* between the turns of the loop, so that an entry one hour short of its   *)
(* dwell time at the call can have reached it when its turn comes.         *)
(***************************************************************************)
\* the earliest time datetime.now() gives while create_proposal runs, in hours
Now == 120

\* the hours between the earliest and the latest time the clock gives while
\* create_proposal runs
MaxDrift == 1

SnapVersions == {"v1.31.0", "v1.31.1"}

\* the hours since its release an entry of a risk level is given
Ages(risk) ==
    IF risk = "stable" THEN {0}
    ELSE {0, 24 * DAYS_TO_STAY_IN_RISK[risk] - 1, 24 * DAYS_TO_STAY_IN_RISK[risk]}

ChannelEntries ==
    {c \in [track : {"tracky", "latest"},
            risk : {RISK_LEVELS[i] : i \in DOMAIN RISK_LEVELS},
            arch : Archs, revision : Revs, version : SnapVersions,
            released_at : {NoTime} \cup 0..Now] :
        c.released_at = NoTime \/ Now - c.released_at \in Ages(c.risk)}

ChannelMaps ==
    {<<>>} \cup {<<c>> : c \in ChannelEntries}
    \cup {<<c, d>> : c \in ChannelEntries, d \in ChannelEntries}

InitProposal ==
    /\ InitCore
    /\ InitMore
    /\ bun = NoBundleCall
    /\ procs = [r \in Runs |-> NoRun]
    /\ hub = NoHub
    /\ run = NoMain
    /\ \E channel_map \in ChannelMaps :
          prop = [NoProposal EXCEPT !.channel_map = channel_map, !.now = Now]

\* promote_tracks.py propose
Propose ==
    /\ ~prop.called
    /\ \E r \in CreateProposal(prop.channel_map, prop.now..(prop.now + MaxDrift)) :
          prop' = [prop EXCEPT !.called = TRUE, !.proposals = r.proposals,
                               !.approvals = r.approvals, !.reads = r.reads]
    /\ UNCHANGED <<candidate, stable, published, sqa, last, prev, ts, query,
                   snap, tested, bun, procs, hub, run, mat, gen>>

NextProposal == Propose

SpecProposal == InitProposal /\ [][NextProposal]_vars

(***************************************************************************)
(* SpecArch: create_proposal over the channel maps of up to three entries  *)
(* of one track, with the entries of a channel name differing in           *)
(* architecture, as the store lists a snap built for amd64 and arm64.      *)
(***************************************************************************)
ArchEntries ==
    {c \in [track : {"tracky"}, risk : {"edge", "beta", "candidate"},
            arch : Archs, revision : Revs, version : SnapVersions,
            released_at : 0..Now] :
        Now - c.released_at \in {0, 24 * DAYS_TO_STAY_IN_RISK[c.risk]}}

\* the store lists one entry per channel name and architecture
OnePerArch(channel_map) ==
    \A i, j \in DOMAIN channel_map :
        (/\ channel_map[i].track = channel_map[j].track
         /\ channel_map[i].risk = channel_map[j].risk
         /\ channel_map[i].arch = channel_map[j].arch) => i = j

ArchMaps ==
    {m \in {<<c>> : c \in ArchEntries}
           \cup {<<c, d>> : c \in ArchEntries, d \in ArchEntries}
           \cup {<<c, d, e>> : c \in ArchEntries, d \in ArchEntries, e \in ArchEntries} :
        OnePerArch(m)}

InitArch ==
    /\ InitCore
    /\ InitMore
    /\ bun = NoBundleCall
    /\ procs = [r \in Runs |-> NoRun]
    /\ hub = NoHub
    /\ run = NoMain
    /\ \E channel_map \in ArchMaps :
          prop = [NoProposal EXCEPT !.channel_map = channel_map, !.now = Now]

NextArch == Propose

SpecArch == InitArch /\ [][NextArch]_vars

(***************************************************************************)
(* SpecMatrix: two RevisionMatrix objects, each built by set calls in any  *)
(* order, and their comparison with ==.  calls is the log of the set calls *)
(* made, [side, arch, base, revision].                                     *)
(***************************************************************************)
MatrixCells == {<<"amd64", "20.04">>, <<"arm64", "22.04">>}

InitMatrix ==
    /\ InitCore
    /\ bun = NoBundleCall
    /\ procs = [r \in Runs |-> NoRun]
    /\ hub = NoHub
    /\ run = NoMain
    /\ prop = NoProposal
    /\ gen = NoGenerator
    /\ mat = NoMatrices

\* matrix.set(arch, base, revision) on the left or the right matrix
MatSet(side, arch, base, revision) ==
    /\ ~mat.compared
    /\ Len(mat.calls) < MaxSets
    /\ mat' = [mat EXCEPT
                  !.left = IF side = "left" THEN MatrixSet(@, arch, base, revision) ELSE @,
                  !.right = IF side = "right" THEN MatrixSet(@, arch, base, revision) ELSE @,
                  !.calls = Append(@, [side |-> side, arch |-> arch, base |-> base,
                                       revision |-> revision])]
    /\ UNCHANGED <<candidate, stable, published, sqa, last, prev, ts, query,
                   snap, tested, bun, procs, hub, run, prop, gen>>

\* left == right
MatCompare ==
    /\ ~mat.compared
    /\ mat' = [mat EXCEPT !.compared = TRUE,
                          !.result = MatrixEq(mat.left, mat.right)]
    /\ UNCHANGED <<candidate, stable, published, sqa, last, prev, ts, query,
                   snap, tested, bun, procs, hub, run, prop, gen>>

NextMatrix ==
    \/ \E side \in {"left", "right"}, k \in MatrixCells, r \in Revs :
          MatSet(side, k[1], k[2], r)
    \/ MatCompare

SpecMatrix == InitMatrix /\ [][NextMatrix]_vars

(***************************************************************************)
(* SpecPriority: a PriorityGenerator whose next_priority is read once by   *)
(* each of MaxThreads threads.  A read is "with self._lock:" (acquire),    *)
(* "self.value += 1" (a load and a store), "return self.value" and the     *)
(* release of the lock at the end of the with block; the steps of the      *)
(* threads interleave in any order.                                        *)
(***************************************************************************)
Threads == 1..MaxThreads

\* the values PriorityGenerator is constructed with
Initials == {0, 1}

NoRead == [pc |-> "idle", loaded |-> 0, returned |-> 0]

\* PriorityGenerator(initial)
NewGenerator(initial) ==
    [initial |-> initial, value |-> initial, lock |-> 0,
     th |-> [t \in Threads |-> NoRead]]

InitPriority ==
    /\ InitCore
    /\ bun = NoBundleCall
    /\ procs = [r \in Runs |-> NoRun]
    /\ hub = NoHub
    /\ run = NoMain
    /\ prop = NoProposal
    /\ mat = NoMatrices
    /\ \E initial \in Initials : gen = NewGenerator(initial)

GenFrame == <<candidate, stable, published, sqa, last, prev, ts, query, snap,
              tested, bun, procs, hub, run, prop, mat>>

\* mutant: the lock is granted whoever holds it
LockFreeAlways(g) == TRUE

\* threading.Lock: free when no thread holds it
LockFree(g) == g.lock = 0

\* "with self._lock:": the thread waits until the lock is free and takes it
GenAcquire(t) ==
    /\ gen.th[t].pc = "idle"
    /\ LockFree(gen)
    /\ gen' = [gen EXCEPT !.lock = t, !.th[t].pc = "load"]
    /\ UNCHANGED GenFrame

\* "self.value += 1": the read of self.value
GenLoad(t) ==
    /\ gen.th[t].pc = "load"
    /\ gen' = [gen EXCEPT !.th[t].loaded = gen.value, !.th[t].pc = "store"]
    /\ UNCHANGED GenFrame

\* "self.value += 1": the write of the sum
GenStore(t) ==
    /\ gen.th[t].pc = "store"
    /\ gen' = [gen EXCEPT !.value = gen.th[t].loaded + 1, !.th[t].pc = "return"]
    /\ UNCHANGED GenFrame

\* "return self.value"
GenReturn(t) ==
    /\ gen.th[t].pc = "return"
    /\ gen' = [gen EXCEPT !.th[t].returned = gen.value, !.th[t].pc = "release"]
    /\ UNCHANGED GenFrame

\* the end of the with block: the lock is released
GenRelease(t) ==
    /\ gen.th[t].pc = "release"
    /\ gen' = [gen EXCEPT !.lock = 0, !.th[t].pc = "done"]
    /\ UNCHANGED GenFrame

NextPriorityRead ==
    \E t \in Threads :
        \/ GenAcquire(t)
        \/ GenLoad(t)
        \/ GenStore(t)
        \/ GenReturn(t)
        \/ GenRelease(t)

SpecPriority == InitPriority /\ [][NextPriorityRead]_vars

(***************************************************************************)
(* SpecVersion: a Bundle under any sequence of set calls, and the          *)
(* get_version call for a cell.                                            *)
(***************************************************************************)
InitVersion == Init

\* bundle.set(charm, revision_matrix)
VersionSet(charm, revision_matrix) ==
    /\ bun' = [BundleSet(bun, charm, revision_matrix) @@ NoBundleCall
                 EXCEPT !.asked = FALSE]
    /\ UNCHANGED <<candidate, stable, published, sqa, last, prev, ts, query,
                   snap, tested, procs, hub, run, prop, mat, gen>>

\* bundle.get_version(arch, base)
VersionGet(arch, base) ==
    /\ bun' = [bun EXCEPT !.asked = TRUE, !.arch = arch, !.base = base,
                          !.version = GetVersion(bun, arch, base)]
    /\ UNCHANGED <<candidate, stable, published, sqa, last, prev, ts, query,
                   snap, tested, procs, hub, run, prop, mat, gen>>

NextVersion ==
    \/ \E c \in Charms, m \in ReleaseMatrices \cup {NoMatrix} : VersionSet(c, m)
    \/ \E a \in Archs, b \in Bases : VersionGet(a, b)

SpecVersion == InitVersion /\ [][NextVersion]_vars


(***************************************************************************)
(* Properties.                                                             *)
(***************************************************************************)
\* the bases whose amd64 cell holds a revision of every component of a bundle
TestableCells(bundle) ==
    {b \in Bases : \A c \in Charms : MatrixGet(bundle[c], "amd64", b) # NoRev}

\* the bases start_release_test was called for in a pass
StartedBases(report) == {report.started[i].base : i \in DOMAIN report.started}

\* the number of start_release_test calls of a pass for a base
StartCalls(report, base) ==
    Cardinality({i \in DOMAIN report.started : report.started[i].base = base})

\* the test service after the instances named in mid finished as mid says,
\* nothing else changed
AfterFinishes(service, mid) ==
    [service EXCEPT !.tpis =
        {IF \E m \in mid : m.tpi = t.id
         THEN [t EXCEPT !.status = (CHOOSE m \in mid : m.tpi = t.id).status]
         ELSE t : t \in service.tpis}]

\* no build was published while the last two passes ran
QuietRegistry == prev.pub = {} /\ last.pub = {}

\* two passes in a row, the world changed by their calls only: no test
\* finished and no build was published between them or while they ran
QuietPasses ==
    prev.ran /\ last.ran /\ prev.mid = {} /\ last.mid = {} /\ QuietRegistry

\* the charms promote_charm was called for in a pass
PromotedCharms(report) == {report.promoted[i].charm : i \in DOMAIN report.promoted}

\* C1 (as claimed): a pass (not dry-run) calls promote_charm only if every
\* amd64 cell of the assembled bundle that has a revision of all components
\* resolved to PASSED in that pass; with such a cell in progress, failed or
\* without test-plan-instance, the pass promotes nothing.
C1_PromoteOnlyWhenAllPassed ==
    (last.ran /\ ~last.dry_run /\ last.promoted # <<>>)
        => \A b \in TestableCells(last.bundle) : last.resolved[b] = PASSED

\* C2 (as claimed): a pass over a testable bundle with a delta and without
\* amd64 cell records zero cells, returns PROCESS_CI_FAILED and promotes
\* nothing.
C2_EmptyCellSetIsCiFailed ==
    (last.ran /\ last.evaluated /\ DOMAIN last.state_map = {})
        => (last.outcome = PROCESS_CI_FAILED /\ last.promoted = <<>>)

\* C3: in a TrackState with a FAILED cell, failed holds and in_progress does
\* not; without FAILED cell and with an IN_PROGRESS cell, in_progress holds;
\* with cells that are all PASSED, succeeded holds.
C3_TrackAggregation ==
    LET anyFailed == \E k \in DOMAIN ts : ts[k] = FAILED
        anyInProgress == \E k \in DOMAIN ts : ts[k] = IN_PROGRESS
    IN /\ anyFailed => (TrackFailed(ts) /\ ~TrackInProgress(ts))
       /\ (~anyFailed /\ anyInProgress) => TrackInProgress(ts)
       /\ (DOMAIN ts # {} /\ \A k \in DOMAIN ts : ts[k] = PASSED)
             => TrackSucceeded(ts)

C3_Witness ==
    /\ Cardinality(DOMAIN ts) >= 3
    /\ \E k \in DOMAIN ts : ts[k] = FAILED
    /\ \E k \in DOMAIN ts : ts[k] = IN_PROGRESS
    /\ \E k \in DOMAIN ts : ts[k] = FAILURE

\* C4 (as claimed): a TrackState without cells is neither succeeded nor failed
\* nor in progress.
C4_EmptyTrackStateIsNothing ==
    (DOMAIN ts = {})
        => (~TrackSucceeded(ts) /\ ~TrackFailed(ts) /\ ~TrackInProgress(ts))

\* the statuses of the test-plan-instances of the product versions that
\* match the query
QueriedStatuses ==
    {t.status : t \in {t \in sqa.tpis :
        \E p \in sqa.pvs : /\ p.id = t.pv
                           /\ p.channel = query.channel
                           /\ p.version = query.version}}

\* the call returned, and the test service held the same records at each of
\* its commands
QueryReturned == query.asked /\ query.lookup.done /\ ~query.moved

\* C5: over the records the test service holds while it is called, the
\* resolver returns PASSED if any instance of the matching product versions
\* is PASSED, else IN_PROGRESS if any is In Progress, else FAILED if any is
\* FAILED, else none (none also when no product version matches), whatever
\* the order the instances were created in.
C5_StatusPrecedence ==
    QueryReturned =>
        query.result =
            IF PASSED \in QueriedStatuses THEN PASSED
            ELSE IF IN_PROGRESS \in QueriedStatuses THEN IN_PROGRESS
            ELSE IF FAILED \in QueriedStatuses THEN FAILED
            ELSE NoStatus

\* the query found an instance in progress and a newer one that failed
C5_Witness ==
    /\ QueryReturned
    /\ query.result = IN_PROGRESS
    /\ \E t, u \in sqa.tpis :
          /\ t.status = IN_PROGRESS /\ u.status = FAILED /\ u.id > t.id
          /\ \E p \in sqa.pvs : p.id = t.pv /\ p.channel = query.channel
          /\ \E p \in sqa.pvs : p.id = u.pv /\ p.channel = query.channel

\* C6 (as claimed): when the instances of the matching product versions are
\* all in status error, the resolver returns FAILED.
C6_ErrorFoldedIntoFailed ==
    (QueryReturned /\ QueriedStatuses = {ERROR}) => query.result = FAILED

\* C7: a cell that resolves to FAILED in a pass gets no start_release_test
\* call in that pass, the pass promotes nothing and returns PROCESS_FAILED;
\* the pass made right after it, the records unchanged and no build
\* published meanwhile, starts no test for the cell and promotes nothing
\* either, and resolves the cell to FAILED again when it evaluates the track.
C7_FailedNeverRetried ==
    \A b \in Bases :
        /\ (last.ran /\ last.resolved[b] = FAILED)
              => /\ b \notin StartedBases(last)
                 /\ last.promoted = <<>>
                 /\ last.outcome = PROCESS_FAILED
        /\ (prev.ran /\ prev.resolved[b] = FAILED /\ last.ran /\ QuietRegistry)
              => /\ b \notin StartedBases(last)
                 /\ last.promoted = <<>>
                 /\ last.evaluated => last.resolved[b] = FAILED

\* two passes in a row find a cell failed, the first one starting the test of
\* another cell
C7_Witness ==
    \E b \in Bases :
        /\ QuietRegistry
        /\ prev.ran /\ ~prev.dry_run /\ prev.resolved[b] = FAILED
        /\ prev.started # <<>>
        /\ last.ran /\ ~last.dry_run /\ last.resolved[b] = FAILED

\* C8: over two passes in a row with nothing external in between or while
\* they run (no test finishing), start_release_test is called at most once
\* per cell.
C8_NoDuplicateSubmission ==
    QuietPasses
        => \A b \in Bases : StartCalls(prev, b) + StartCalls(last, b) <= 1

C8_Witness ==
    /\ QuietPasses
    /\ prev.ran /\ ~prev.dry_run /\ prev.started # <<>>
    /\ last.ran /\ ~last.dry_run /\ last.evaluated
    /\ \E b \in StartedBases(prev) : last.resolved[b] = IN_PROGRESS

\* C9 (as claimed): the second of two passes in a row with nothing external in
\* between or while they run returns PROCESS_UNCHANGED.
C9_SecondPassUnchanged ==
    QuietPasses => last.outcome = PROCESS_UNCHANGED

\* every populated candidate matrix is released in stable as it is
NoDeltaLeft ==
    \A c \in Charms : candidate[c] = EmptyMatrix \/ candidate[c] = stable[c]

\* C9 (amended): the second of two passes in a row, with nothing external in
\* between or while they run, returns PROCESS_UNCHANGED
\* after a first pass that promoted (PROCESS_SUCCESS, not dry-run) and left no
\* component with a delta; after a first pass that returned
\* PROCESS_IN_PROGRESS or PROCESS_FAILED it returns that outcome again when it
\* evaluates the track, and PROCESS_UNCHANGED otherwise.
C9_SecondPassOutcome ==
    QuietPasses =>
        /\ (prev.outcome = PROCESS_SUCCESS /\ ~prev.dry_run /\ NoDeltaLeft)
              => last.outcome = PROCESS_UNCHANGED
        /\ prev.outcome \in {PROCESS_IN_PROGRESS, PROCESS_FAILED}
              => last.outcome = IF last.evaluated THEN prev.outcome
                                ELSE PROCESS_UNCHANGED

C9_Witness ==
    /\ QuietPasses
    /\ prev.ran /\ ~prev.dry_run /\ prev.started # <<>>
    /\ prev.outcome = PROCESS_IN_PROGRESS
    /\ last.ran /\ last.outcome = PROCESS_IN_PROGRESS

\* the version keys of the amd64 cells of a bundle are pairwise different
PairwiseDifferent(bundle) ==
    \A b1, b2 \in TestableCells(bundle) :
        b1 # b2 => BundleGetVersion(bundle, "amd64", b1)
                      # BundleGetVersion(bundle, "amd64", b2)

\* C10: for a track whose components all have a delta and whose n >= 1 amd64
\* cells have pairwise different revisions, a pass (not dry-run) that finds no
\* status for any cell makes n start_release_test calls, one per cell, and
\* returns PROCESS_IN_PROGRESS; a pass that finds every cell PASSED makes one
\* promote_charm call per component, no start_release_test call, and returns
\* PROCESS_SUCCESS.
C10_StartThenPromote ==
    LET cells == TestableCells(last.bundle)
    IN (/\ last.ran /\ ~last.dry_run /\ last.evaluated
        /\ last.delta = Charms
        /\ cells # {}
        /\ PairwiseDifferent(last.bundle))
       => /\ (\A b \in cells : last.resolved[b] = NoStatus)
                => /\ Len(last.started) = Cardinality(cells)
                   /\ \A b \in cells : StartCalls(last, b) = 1
                   /\ last.promoted = <<>>
                   /\ last.outcome = PROCESS_IN_PROGRESS
          /\ (\A b \in cells : last.resolved[b] = PASSED)
                => /\ Len(last.promoted) = Len(BundleCharms)
                   /\ \A i \in DOMAIN last.promoted :
                         last.promoted[i].charm = BundleCharms[i]
                   /\ last.started = <<>>
                   /\ last.outcome = PROCESS_SUCCESS

\* the pass that promotes two cells of different revisions, whose tests an
\* earlier pass started
C10_Witness ==
    LET cells == TestableCells(last.bundle)
    IN /\ last.ran /\ ~last.dry_run /\ last.evaluated
       /\ last.delta = Charms
       /\ Cardinality(cells) = 2
       /\ PairwiseDifferent(last.bundle)
       /\ \A b \in cells : last.resolved[b] = PASSED
       /\ Cardinality(sqa.tpis) = 2
       /\ PromotedCharms(last) = Charms

\* the candidate channels hold a release: the bundle is testable whatever
\* matrix is_testable compares with, and a component has a delta
Releasable ==
    /\ \A ref \in Charms : BundleIsTestable(AssembleBundle(candidate, stable), ref)
    /\ \E c \in Charms : HasDelta(candidate, stable, c)

\* a step of a pass: it leaves its report
PassStep == last'.ran /\ <<last, prev>>' # <<last, prev>>

\* a pass found the track converged: nothing to release, nothing done
ConvergedPass ==
    /\ last.outcome = PROCESS_UNCHANGED
    /\ last.started = <<>>
    /\ last.promoted = <<>>

\* C11: with passes scheduled again and again, external calls succeeding and
\* every started test reporting PASSED in the end, the passes over a release
\* return PROCESS_SUCCESS (promoting) at some point; from then on candidate
\* equals stable for every component and every later pass returns
\* PROCESS_UNCHANGED without start_release_test or promote_charm call.
C11_ConvergesToStable ==
    /\ Releasable =>
          /\ <>(last.outcome = PROCESS_SUCCESS /\ PromotedCharms(last) = Charms)
          /\ [](last.outcome = PROCESS_SUCCESS =>
                  [](\A c \in Charms : candidate[c] = stable[c]))
    /\ [][((\A c \in Charms : candidate[c] = stable[c]) /\ PassStep)
             => ConvergedPass']_vars

\* the pass after the promotion of a release of two tested cells
C11_Witness ==
    /\ prev.outcome = PROCESS_SUCCESS
    /\ PromotedCharms(prev) = Charms
    /\ ConvergedPass
    /\ Cardinality(sqa.tpis) = 2
    /\ \A c \in Charms : candidate[c] = stable[c] /\ candidate[c] # EmptyMatrix

\* C12: a dry-run pass makes no start_release_test and no promote_charm call
\* and leaves the stable channels as they are and the test service as the
\* tests that finished while it ran left it, while the
\* cells without test-plan-instance are recorded IN_PROGRESS and the outcome
\* is the one of the recorded track state; a dry-run release_revision does
\* not run the release command and leaves the snap's channel as it is.
C12_DryRunMutatesNothing ==
    /\ []((last.ran /\ last.dry_run) =>
            /\ last.started = <<>>
            /\ last.promoted = <<>>
            /\ last.evaluated =>
                  /\ \A b \in TestableCells(last.bundle) :
                        last.resolved[b] = NoStatus =>
                           last.state_map[BundleGetVersion(last.bundle, "amd64", b)]
                              = IN_PROGRESS
                  /\ last.outcome = StateOutcome(last.state_map))
    /\ []((snap.call.made /\ snap.call.dry_run) =>
            /\ ~snap.call.command
            /\ snap.store[snap.call.channel] = snap.call.before)
    /\ [][(last'.ran /\ last'.dry_run /\ snap' = snap)
             => (sqa' = AfterFinishes(sqa, last'.mid) /\ stable' = stable)]_vars

\* a dry-run pass that found cells without test-plan-instance, and a dry-run
\* release of a revision to a channel that holds another one
C12_Witness ==
    /\ last.ran /\ last.dry_run /\ last.evaluated
    /\ \E b \in TestableCells(last.bundle) : last.resolved[b] = NoStatus
    /\ last.outcome = PROCESS_IN_PROGRESS
    /\ snap.call.made /\ snap.call.dry_run
    /\ snap.call.before # NoRev
    /\ snap.call.before # snap.call.revision

\* C13 (as claimed): a pass in which a query of the package registry fails
\* (no connection, timeout, response that is not 2xx) returns
\* PROCESS_CI_FAILED at once, without start_release_test or promote_charm call.
C13_RegistryFailureIsCiFailed ==
    (last.ran /\ last.fault.kind \in {"registry", "http"})
        => /\ last.outcome = PROCESS_CI_FAILED
           /\ last.started = <<>>
           /\ last.promoted = <<>>

\* C14 (as claimed): a pass in which a promote_charm command fails after the
\* tests succeeded returns PROCESS_CI_FAILED.
C14_PromotionFailureIsCiFailed ==
    (last.ran /\ \E i \in DOMAIN last.promoted : ~last.promoted[i].ok)
        => last.outcome = PROCESS_CI_FAILED

\* C15 (as claimed): whatever fails inside a pass, process_track returns one
\* of its outcomes to the loop of main: no exception leaves it.
C15_NoExceptionEscapes ==
    last.ran => last.outcome \in ProcessStates

\* C16: a pass made when the candidate matrix of every component is empty or
\* equal to its stable matrix, and stays so while the pass reads the
\* registry, returns PROCESS_UNCHANGED, looks up no status,
\* starts no test, promotes nothing and leaves the test service and the
\* stable channels as they are.
C16_NoDeltaIsUnchanged ==
    [][(NoDeltaLeft /\ last'.ran /\ last'.pub = {})
         => /\ last'.outcome = PROCESS_UNCHANGED
            /\ ~last'.evaluated
            /\ last'.looked = {}
            /\ last'.started = <<>>
            /\ last'.promoted = <<>>
            /\ sqa' = sqa
            /\ stable' = stable]_vars

\* a pass over a released track: the candidate channels are populated and
\* equal to the stable ones, the tests of the release are on record
C16_Witness ==
    /\ last.ran /\ ~last.dry_run
    /\ last.testable
    /\ last.delta = {}
    /\ last.outcome = PROCESS_UNCHANGED
    /\ \A c \in Charms : candidate[c] # EmptyMatrix /\ candidate[c] = stable[c]
    /\ sqa.tpis # {}

\* the bundle has a component, no component's matrix is None, the matrices
\* have the same architectures and the same bases, and a cell that holds a
\* revision in a component holds one in every component
FullyCovered(data) ==
    /\ DOMAIN data # {}
    /\ \A c \in DOMAIN data : data[c] # NoMatrix
    /\ \A c, d \in DOMAIN data :
          /\ MatrixArchs(data[c]) = MatrixArchs(data[d])
          /\ MatrixBases(data[c]) = MatrixBases(data[d])
          /\ \A k \in DOMAIN data[c] : MatrixGet(data[d], k[1], k[2]) # NoRev

\* C17 (as claimed): a pass whose assembled bundle is not testable (the
\* matrices of its components differ in architectures or bases, or a cell is
\* covered by some components only) returns PROCESS_UNCHANGED without error,
\* starts no test and promotes nothing.
C17_PartialCoverageNeverTested ==
    (last.ran /\ ~FullyCovered(last.bundle))
        => /\ last.outcome = PROCESS_UNCHANGED
           /\ last.error = "none"
           /\ last.started = <<>>
           /\ last.promoted = <<>>

\* C18: a pass looks up the status, starts a test and records a track-state
\* entry for cells of architecture amd64 only.
C18_OnlyAmd64Cells ==
    last.ran =>
        /\ \A k \in last.looked \cup last.recorded : k[1] = "amd64"
        /\ \A i \in DOMAIN last.started : last.started[i].arch = "amd64"

\* a pass over a bundle with an arm64 cell covered by every component, which
\* started the test of an amd64 cell
C18_Witness ==
    /\ last.ran /\ ~last.dry_run /\ last.evaluated
    /\ \E b \in Bases :
          \A c \in Charms : MatrixGet(last.bundle[c], "arm64", b) # NoRev
    /\ last.started # <<>>
    /\ last.recorded # {}

\* C19: the k-th start_release_test call of a pass is given priority k, from
\* 1 on: the priorities of a pass are increasing and pairwise distinct.
C19_PrioritiesIncrease ==
    last.ran => \A i \in DOMAIN last.started : last.started[i].priority = i

\* a pass that started two tests
C19_Witness ==
    /\ last.ran
    /\ Len(last.started) = 2
    /\ last.started[1].priority = 1
    /\ last.started[2].priority = 2
    /\ last.started[1].base # last.started[2].base

\* C20 (as claimed): is_testable() is true exactly for the fully covered
\* bundles; a bundle in which the populated cells of one component are a
\* strict subset of another's is never testable.
C20_TestableIffFullyCovered ==
    tested.asked => (tested.result <=> FullyCovered(tested.data))


\* the place of a charm in the sorted order of the charm names
CharmRank(charm) == CHOOSE i \in DOMAIN CharmOrder : CharmOrder[i] = charm

\* C21: get_version(arch, base) is a function of the bundle's name and of the
\* revisions its components hold for the cell, whatever the order the
\* components were set in: None when the bundle has no component or a
\* component has no revision for the cell, and otherwise the name followed by
\* one {component}-{revision} part per component, in sorted order.
C21_VersionOfCell ==
    bun.asked =>
        LET revision(c) == MatrixGet(bun.data[c], bun.arch, bun.base)
            parts == bun.version.parts
        IN IF DOMAIN bun.data = {} \/ \E c \in DOMAIN bun.data : revision(c) = NoRev
           THEN bun.version = NoVersion
           ELSE /\ bun.version.name = BundleName
                /\ Len(parts) = Cardinality(DOMAIN bun.data)
                /\ \A i \in DOMAIN parts :
                      /\ parts[i].charm \in DOMAIN bun.data
                      /\ parts[i].revision = revision(parts[i].charm)
                /\ \A i, j \in DOMAIN parts :
                      i < j => CharmRank(parts[i].charm) < CharmRank(parts[j].charm)

\* a version asked of a bundle whose components were set in reverse order
C21_Witness ==
    /\ bun.asked
    /\ bun.keys = <<"k8s-worker", "k8s">>
    /\ bun.version # NoVersion
    /\ bun.version.parts[1].revision # bun.version.parts[2].revision

\* C22: after ensure_track_state returned, the track state holds one entry per
\* (amd64, base) cell that has a revision of every component in the bundle,
\* also when two bases carry the same revisions: as many entries as such
\* cells, and a status was recorded for each of them.
C22_OneEntryPerCell ==
    (last.ran /\ last.evaluated /\ last.error = "none") =>
        /\ Cardinality(DOMAIN last.state_map)
              = Cardinality(TestableCells(last.bundle))
        /\ \A b \in TestableCells(last.bundle) : <<"amd64", b>> \in last.recorded

\* the product versions matching the version key of the release's cell
KeyProductVersions(service) ==
    ProductVersions(service, CandidateChannel, ResolverVersion)

\* C23: when more than one product version matches (channel, version),
\* start_release_test raises SQAFailure and picks none of them: the call
\* creates no product version, no addon and no test-plan-instance (the
\* service is left as the tests that finished during the pass left it), and
\* process_track returns PROCESS_CI_FAILED.
C23_AmbiguousProductVersion ==
    [][(/\ Cardinality(KeyProductVersions(sqa)) > 1
        /\ last'.ran
        /\ last'.started # <<>>)
          => /\ \A i \in DOMAIN last'.started : ~last'.started[i].ok
             /\ last'.error = "SQAFailure"
             /\ sqa' = AfterFinishes(sqa, last'.mid)
             /\ last'.outcome = PROCESS_CI_FAILED
             /\ last'.promoted = <<>>]_vars

\* a pass called start_release_test with two product versions matching
C23_Witness ==
    /\ last.ran /\ ~last.dry_run
    /\ Len(last.started) = 1
    /\ last.started[1].version = ResolverVersion
    /\ ~last.started[1].ok
    /\ Cardinality(KeyProductVersions(sqa)) = 2
    /\ sqa.addons = {}
    /\ last.outcome = PROCESS_CI_FAILED

\* the records a step added to the test service
CreatedProductVersions == sqa'.pvs \ sqa.pvs
CreatedAddons == sqa'.addons \ sqa.addons
CreatedTestPlanInstances ==
    {t \in sqa'.tpis : \A u \in sqa.tpis : u.id # t.id}

\* C24: over the start_release_test calls made one after the other for the
\* same (channel, version), every lookup answering, at most one product version and at most one addon
\* named by the version are created: a product version or an addon is created
\* only when none of that key existed before the call, and a call that finds
\* both creates the test-plan-instance only.
C24_CreateOrReuse ==
    [][(last'.ran /\ last'.started # <<>>) =>
          /\ \A p \in CreatedProductVersions :
                /\ ~\E q \in sqa.pvs : q.channel = p.channel /\ q.version = p.version
                /\ p.version = last'.started[1].version
          /\ Cardinality(CreatedProductVersions) <= 1
          /\ \A a \in CreatedAddons :
                /\ ~\E b \in sqa.addons : b.name = a.name
                /\ a.name = last'.started[1].version
          /\ Cardinality(CreatedAddons) <= 1
          /\ \A v \in {a.name : a \in sqa'.addons} :
                Cardinality({a \in sqa'.addons : a.name = v}) = 1
          /\ ((\E q \in sqa.pvs : /\ q.channel = CandidateChannel
                                   /\ q.version = last'.started[1].version)
               /\ (\E b \in sqa.addons : b.name = last'.started[1].version)
               /\ last'.started[1].ok)
                => /\ sqa'.pvs = sqa.pvs
                   /\ sqa'.addons = sqa.addons
                   /\ Cardinality(CreatedTestPlanInstances) = 1]_vars

\* the second start_release_test call for a key: a product version, an addon
\* and two test-plan-instances
C24_Witness ==
    /\ last.ran /\ Len(last.started) = 1 /\ last.started[1].ok
    /\ Cardinality(sqa.pvs) = 1
    /\ Cardinality(sqa.addons) = 1
    /\ Cardinality(sqa.tpis) = 2
    /\ \A t \in sqa.tpis : \A p \in sqa.pvs : t.pv = p.id

\* C25: two passes that overlap and both find no test-plan-instance for the
\* same (channel, version) never leave more than one product version, more
\* than one addon of that name or more than one test-plan-instance for the key.
C25_NoDuplicatesUnderRace ==
    (\A r \in Runs : procs[r].pc \notin {"check", "check_tpis"}
                       /\ procs[r].status = NoStatus) =>
        /\ Cardinality(KeyProductVersions(sqa)) <= 1
        /\ Cardinality({a \in sqa.addons : a.name = ResolverVersion}) <= 1
        /\ Cardinality({t \in sqa.tpis :
                           \E p \in KeyProductVersions(sqa) : t.pv = p.id}) <= 1

\* the command of start_release_test is issued by a call made for the
\* release's cell against the given test service
Issued(service, step) ==
    LET pvs == KeyProductVersions(service)
        addons == {a \in service.addons : a.name = ResolverVersion}
    IN CASE step = "pv_list" -> TRUE
         [] step = "pv_create" -> pvs = {}
         [] step = "addon_get" -> Cardinality(pvs) <= 1
         [] step = "addon_create" -> Cardinality(pvs) <= 1 /\ addons = {}
         [] step = "tpi_create" -> Cardinality(pvs) <= 1 /\ Cardinality(addons) <= 1
         [] OTHER -> FALSE

\* the start_release_test call of the pass just made had the command of the
\* pass's fault fail
StartCommandFailed ==
    /\ last'.ran
    /\ last'.fault.kind = "start"
    /\ last'.started # <<>>
    /\ last'.started[1].base = last'.fault.at
    /\ Issued(sqa, last'.fault.step)

\* C26: start_release_test returns normally only when every command it issued
\* succeeded; when a command or query fails, the lookup of an existing addon
\* included, it raises SQAFailure (and the pass returns PROCESS_CI_FAILED).
C26_StartFailureRaises ==
    [][StartCommandFailed =>
          /\ ~last'.started[1].ok
          /\ last'.error = "SQAFailure"
          /\ last'.outcome = PROCESS_CI_FAILED]_vars

\* C27: get_revision_matrix tells an HTTP failure of a query from "no data": a
\* response other than 2xx for a cell never leaves a returned matrix in which
\* the cell is just absent, as it is when no revision is published.
C27_HttpFailureSurfaced ==
    hub.asked =>
        \A k \in HubCells :
            (/\ hub.responses[k].answered
             /\ hub.responses[k].status_code \notin 200..299)
               => ~(~hub.raised /\ k \notin DOMAIN hub.matrix)

\* the outcomes main reports
Reported == {PROCESS_SUCCESS, PROCESS_FAILED, PROCESS_CI_FAILED}

\* the lines of results.txt for a track
LinesOf(track) == {j \in DOMAIN run.lines : run.lines[j].key = track}

\* C28: after main processed a non-empty list of (distinct) tracks,
\* results.txt holds exactly one line track=outcome for every track whose
\* outcome is SUCCESS, FAILED or CI_FAILED, and no line for a track whose
\* outcome is IN_PROGRESS or UNCHANGED.
C28_ResultsFile ==
    (/\ run.called /\ ~run.raised /\ run.tracks # <<>>
     /\ \A i, j \in DOMAIN run.tracks : i # j => run.tracks[i] # run.tracks[j])
      => /\ run.written
         /\ \A i \in DOMAIN run.tracks :
               IF run.outcomes[i] \in Reported
               THEN /\ Cardinality(LinesOf(run.tracks[i])) = 1
                    /\ \A j \in LinesOf(run.tracks[i]) :
                          run.lines[j].value = run.outcomes[i]
               ELSE LinesOf(run.tracks[i]) = {}
         /\ \A j \in DOMAIN run.lines :
               \E i \in DOMAIN run.tracks : run.tracks[i] = run.lines[j].key

\* a run over two tracks, one promoted and one still in progress
C28_Witness ==
    /\ run.called /\ run.written
    /\ run.tracks = <<"1.32", "1.33">>
    /\ run.outcomes = <<PROCESS_IN_PROGRESS, PROCESS_SUCCESS>>
    /\ run.lines = <<[key |-> "1.33", value |-> PROCESS_SUCCESS]>>

\* every channel name occurs once in the channel map of the call
OneEntryPerChannel ==
    \A i, j \in DOMAIN prop.channel_map :
        (/\ prop.channel_map[i].track = prop.channel_map[j].track
         /\ prop.channel_map[i].risk = prop.channel_map[j].risk) => i = j

\* the channel map lists a channel name once per architecture, and the
\* entries of a channel name hold one revision and one version: "the
\* revision at track/risk" is one value
OneRevisionPerChannel ==
    \A i, j \in DOMAIN prop.channel_map :
        (/\ prop.channel_map[i].track = prop.channel_map[j].track
         /\ prop.channel_map[i].risk = prop.channel_map[j].risk)
           => /\ prop.channel_map[i].arch = prop.channel_map[j].arch => i = j
              /\ prop.channel_map[i].revision = prop.channel_map[j].revision
              /\ prop.channel_map[i].version = prop.channel_map[j].version

\* the times the clock gave in the turns of the loop for the entry
ReadsOf(c) ==
    {prop.reads[i].now : i \in {j \in DOMAIN prop.reads : prop.reads[j].entry = c}}

\* the entries of the channel map for track/risk
EntriesAt(track, risk) ==
    {c \in {prop.channel_map[i] : i \in DOMAIN prop.channel_map} :
        c.track = track /\ c.risk = risk}

\* the revisions and the versions released at track/risk (none: no entry)
RevisionsAt(track, risk) == {c.revision : c \in EntriesAt(track, risk)}
VersionsAt(track, risk) == {c.version : c \in EntriesAt(track, risk)}

\* when the loop came to the entry, it was released at least the dwell time
\* of its risk ago
DwellOver(c) ==
    /\ c.released_at # NoTime
    /\ \E t \in ReadsOf(c) : t - c.released_at >= 24 * DAYS_TO_STAY_IN_RISK[c.risk]

\* a proposal of the call promotes the entry one risk level up
Proposed(c) ==
    \E j \in DOMAIN prop.proposals :
        /\ prop.proposals[j].name.track = c.track
        /\ prop.proposals[j].name.arch = c.arch
        /\ prop.proposals[j].snap_channel = <<c.track, NEXT_RISK(c.risk)>>
        /\ prop.proposals[j].revision = c.revision

\* the entries create_proposal decides about: track not ignored, risk not stable
Promotable ==
    {c \in {prop.channel_map[i] : i \in DOMAIN prop.channel_map} :
        c.track \notin IGNORE_TRACKS /\ c.risk # "stable"}

\* C29: for an entry of a track that is not ignored and of a risk below
\* stable, create_proposal emits a proposal exactly when (it has a release
\* time, the whole days since, when the loop comes to it, are at least the
\* dwell of its risk, edge 1, beta 3, candidate 5, and the revision at
\* track/risk differs from the one at track/next_risk) or (its risk is edge
\* and the version at track/beta differs from the one at track/edge), and the
\* first-stable gate does not apply; so an entry before its dwell time
\* without a differing version ahead gives no proposal, and an edge entry at
\* exactly one day is proposed for beta.  Stated for the channel maps in which
\* a channel name holds one revision and one version.
C29_ProposalRule ==
    (prop.called /\ OneRevisionPerChannel) =>
        /\ \A c \in Promotable :
              LET next == NEXT_RISK(c.risk)
                  trigger ==
                      \/ /\ DwellOver(c)
                         /\ RevisionsAt(c.track, c.risk) # RevisionsAt(c.track, next)
                      \/ /\ c.risk = "edge"
                         /\ VersionsAt(c.track, next) # VersionsAt(c.track, c.risk)
                  gate == next = "stable" /\ EntriesAt(c.track, "stable") = {}
              IN Proposed(c) <=> (trigger /\ ~gate)
        /\ Len(prop.proposals)
              = Cardinality({c \in Promotable : Proposed(c)})

\* a beta entry one hour short of its three days when the loop comes to it,
\* and an edge entry of the same version and another revision that has
\* reached exactly one day when its turn comes, the clock having moved on in
\* between: the edge entry alone is proposed, for beta
C29_Witness ==
    /\ prop.called
    /\ Len(prop.channel_map) = 2
    /\ prop.channel_map[1].track = "tracky" /\ prop.channel_map[1].risk = "edge"
    /\ prop.channel_map[2].track = "tracky" /\ prop.channel_map[2].risk = "beta"
    /\ prop.channel_map[2].version = prop.channel_map[1].version
    /\ prop.channel_map[2].revision # prop.channel_map[1].revision
    /\ Len(prop.reads) = 2
    /\ prop.reads[1].entry = prop.channel_map[2]
    /\ prop.reads[1].now - prop.channel_map[2].released_at = 24 * 3 - 1
    /\ prop.reads[2].entry = prop.channel_map[1]
    /\ prop.reads[2].now - prop.channel_map[1].released_at = 24
    /\ prop.reads[1].now < prop.reads[2].now
    /\ Len(prop.proposals) = 1
    /\ prop.proposals[1].snap_channel = <<"tracky", "beta">>
    /\ prop.proposals[1].revision = prop.channel_map[1].revision

\* C30: an edge revision is proposed before its dwell time is over only when
\* a revision of a different version is in beta of the track; with no beta
\* entry, an edge revision released 0 days ago is not proposed.
C30_EdgeFastPath ==
    (prop.called /\ OneEntryPerChannel) =>
        \A c \in Promotable :
            (c.risk = "edge" /\ ~DwellOver(c) /\ Proposed(c))
               => \E b \in EntriesAt(c.track, "beta") : b.version # c.version

\* the proposals of the call that release to track/risk
ProposalsTo(track, risk) ==
    {j \in DOMAIN prop.proposals : prop.proposals[j].snap_channel = <<track, risk>>}

\* C31: first-stable gate: for a track without a stable entry in the channel
\* map, create_proposal emits no proposal releasing to track/stable, whatever
\* the release time of the candidate entry; a candidate entry past its dwell
\* time gets an approval request instead.
C31_FirstStableGate ==
    prop.called =>
        \A track \in {"tracky", "latest"} :
            EntriesAt(track, "stable") = {} =>
                /\ ProposalsTo(track, "stable") = {}
                /\ \A c \in EntriesAt(track, "candidate") :
                      (track = "tracky" /\ DwellOver(c))
                         => \E j \in DOMAIN prop.approvals : prop.approvals[j] = c

\* a map of one candidate entry released five days before its turn, no stable
\* entry: the call proposes nothing and asks approval for the candidate
C31_Witness ==
    /\ prop.called
    /\ Len(prop.channel_map) = 1
    /\ prop.channel_map[1].track = "tracky"
    /\ prop.channel_map[1].risk = "candidate"
    /\ ReadsOf(prop.channel_map[1]) = {prop.channel_map[1].released_at + 24 * 5}
    /\ prop.proposals = <<>>
    /\ prop.approvals = <<prop.channel_map[1]>>

\* C32: create_proposal emits no proposal for an entry of the ignored track
\* 'latest' nor for an entry of risk stable, for any release time and any
\* content of the other channels: no proposal names the track 'latest', starts
\* from a stable channel or releases beyond stable.
C32_NoIgnoredNoStable ==
    prop.called =>
        \A j \in DOMAIN prop.proposals :
            /\ prop.proposals[j].name.track # "latest"
            /\ prop.proposals[j].snap_channel[1] # "latest"
            /\ prop.proposals[j].upgrade_channels[2][2] # "stable"
            /\ prop.proposals[j].snap_channel[2] \in {"beta", "candidate", "stable"}

\* a map of an edge entry of 'latest' past its dwell time and a stable entry
\* of the track: nothing is proposed
C32_Witness ==
    /\ prop.called
    /\ Len(prop.channel_map) = 2
    /\ prop.channel_map[1].track = "latest" /\ prop.channel_map[1].risk = "edge"
    /\ prop.now - prop.channel_map[1].released_at = 24
    /\ prop.channel_map[2].track = "tracky" /\ prop.channel_map[2].risk = "stable"
    /\ prop.channel_map[2].released_at = prop.now
    /\ prop.proposals = <<>>
    /\ prop.approvals = <<>>

\* the risk level right above a risk level of the ladder
RungAbove(risk) ==
    CASE risk = "edge" -> "beta"
      [] risk = "beta" -> "candidate"
      [] risk = "candidate" -> "stable"
      [] OTHER -> "none"

\* C33: every proposal of create_proposal advances one rung: there is an
\* entry of the channel map, of the proposal's track and architecture, whose
\* revision is the proposal's revision, whose channel is the source of the
\* proposal's upgrade-channels pair, and whose track at the next risk level
\* (edge to beta, beta to candidate, candidate to stable) is the proposal's
\* snap-channel and the target of the pair.
C33_OneRung ==
    prop.called =>
        \A j \in DOMAIN prop.proposals :
            LET p == prop.proposals[j] IN
            /\ Len(p.upgrade_channels) = 2
            /\ p.upgrade_channels[1] = p.snap_channel
            /\ \E i \in DOMAIN prop.channel_map :
                  LET c == prop.channel_map[i] IN
                  /\ c.track = p.name.track /\ c.arch = p.name.arch
                  /\ c.revision = p.revision
                  /\ p.upgrade_channels[2] = <<c.track, c.risk>>
                  /\ p.snap_channel = <<c.track, RungAbove(c.risk)>>
                  /\ p.name.next_risk = RungAbove(c.risk)

\* a beta entry three days old and a candidate entry of another revision:
\* the one proposal releases the beta revision to candidate
C33_Witness ==
    /\ prop.called
    /\ Len(prop.channel_map) = 2
    /\ prop.channel_map[1].track = "tracky" /\ prop.channel_map[1].risk = "beta"
    /\ ReadsOf(prop.channel_map[1]) = {prop.channel_map[1].released_at + 24 * 3}
    /\ prop.channel_map[2].track = "tracky" /\ prop.channel_map[2].risk = "candidate"
    /\ prop.channel_map[2].released_at = prop.now
    /\ prop.channel_map[2].revision # prop.channel_map[1].revision
    /\ Len(prop.proposals) = 1
    /\ prop.proposals[1].revision = prop.channel_map[1].revision
    /\ prop.proposals[1].snap_channel = <<"tracky", "candidate">>
    /\ prop.proposals[1].upgrade_channels = <<<<"tracky", "candidate">>, <<"tracky", "beta">>>>

\* the revisions released at track/risk for an architecture
RevisionsOfArch(track, risk, arch) ==
    {c.revision : c \in {d \in EntriesAt(track, risk) : d.arch = arch}}

\* the edge fast path cannot apply to the entry: it is no edge entry, or edge
\* and beta of its track hold its version only
NoNewPatch(c) ==
    \/ c.risk # "edge"
    \/ /\ VersionsAt(c.track, "edge") = {c.version}
       /\ VersionsAt(c.track, "beta") = {c.version}

\* C40: with several architectures per channel, create_proposal emits no
\* dwell-time proposal for an entry (track, risk, arch) whose revision is
\* already the revision released at the next risk level of the track for the
\* same architecture: revisions are compared per architecture.
C40_ComparedPerArch ==
    (prop.called /\ OnePerArch(prop.channel_map)) =>
        \A c \in Promotable :
            (Proposed(c) /\ NoNewPatch(c))
               => c.revision \notin RevisionsOfArch(c.track, NEXT_RISK(c.risk), c.arch)

\* C36: Bundle.is_testable() is deterministic: the result of the call on a
\* bundle is the result with every other component's matrix picked as the
\* reference, so a second evaluation of the unchanged bundle returns the same.
C36_TestableDeterministic ==
    tested.asked =>
        \A other \in DOMAIN tested.data :
            BundleIsTestable(tested.data, other) = tested.result

\* the cells of the pass just made for which the test service reported none:
\* the cells start_release_test is called for (in dry run, would be)
CellsToStart == {base \in Bases : last.resolved[base] = NoStatus}

\* the state the pass recorded for the cell
RecordedState(base) ==
    LET version == BundleGetVersion(last.bundle, "amd64", base)
    IN IF version \in DOMAIN last.state_map THEN last.state_map[version]
       ELSE NoStatus

\* C37 (as claimed): a pass that calls start_release_test for a cell (in dry
\* run, would call it) records the cell IN_PROGRESS, so its outcome is
\* IN_PROGRESS or FAILED, never SUCCESS, and it calls promote_charm for no
\* component.
C37_StartMeansInProgressOrFailed ==
    (last.ran /\ CellsToStart # {}) =>
        /\ \A base \in CellsToStart : RecordedState(base) = IN_PROGRESS
        /\ last.outcome \in {PROCESS_IN_PROGRESS, PROCESS_FAILED}
        /\ last.promoted = <<>>

\* the charms promote_charm was called for in a pass, and those it succeeded for
PromoteCalls(pass) == {pass.promoted[i].charm : i \in DOMAIN pass.promoted}
PromoteDone(pass) ==
    {pass.promoted[i].charm : i \in {j \in DOMAIN pass.promoted : pass.promoted[j].ok}}

\* the pass before the last one promoted some charm and failed for another,
\* and nothing changed before or during the last pass, in which no call fails
PartialPromotion ==
    /\ QuietPasses /\ ~prev.dry_run /\ ~last.dry_run
    /\ PromoteDone(prev) # {}
    /\ PromoteCalls(prev) # PromoteDone(prev)
    /\ last.fault = NoFault

\* C38: after a pass in which promote_charm succeeded for some components and
\* failed for another, the next pass assembles the same bundle (the promoted
\* components contribute their stable matrix, equal to the former candidate),
\* so every cell has the version key it had, starts no test, and calls
\* promote_charm again for every component.
C38_PartialPromotionRecovers ==
    PartialPromotion =>
        /\ \A c \in PromoteDone(prev) :
              last.bundle[c] = stable[c] /\ last.bundle[c] = prev.bundle[c]
        /\ last.bundle = prev.bundle
        /\ last.started = <<>>
        /\ PromoteCalls(last) = Charms
        /\ PromoteDone(last) = Charms

\* the start_release_test call of the pass just made failed at the creation
\* of the addon (the product version in place, no addon of the key) or of the
\* test-plan-instance (the product version and the addon in place)
InterruptedStart ==
    /\ last.ran /\ ~last.dry_run
    /\ last.fault.kind = "start"
    /\ last.fault.step \in {"addon_create", "tpi_create"}
    /\ Len(last.started) = 1
    /\ ~last.started[1].ok
    /\ last.started[1].base = last.fault.at
    /\ Cardinality({p \in sqa.pvs : /\ p.channel = CandidateChannel
                                     /\ p.version = last.started[1].version}) = 1
    /\ Cardinality({a \in sqa.addons : a.name = last.started[1].version})
          = (IF last.fault.step = "addon_create" THEN 0 ELSE 1)

\* the next pass, right after the pass just made, with no command failing
\* and no test finishing while the two passes run
RecoveryPass ==
    /\ last'.ran /\ ~last'.dry_run
    /\ prev' = last
    /\ last'.fault = NoFault
    /\ last.mid = {} /\ last'.mid = {}

\* C39: when start_release_test fails after the product version (and
\* possibly the addon) was created and before the test-plan-instance was,
\* the pass returns PROCESS_CI_FAILED; the next pass resolves the cell to
\* none, reuses the product version and the addon and creates exactly one
\* test-plan-instance: no second product version or addon of the key results.
C39_InterruptedStartRecovers ==
    [][(InterruptedStart /\ RecoveryPass) =>
          LET version == last.started[1].version
              base == last.started[1].base
          IN /\ last.outcome = PROCESS_CI_FAILED
             /\ last'.resolved[base] = NoStatus
             /\ Len(last'.started) = 1
             /\ last'.started[1].ok
             /\ last'.started[1].version = version
             /\ sqa'.pvs = sqa.pvs
             /\ (\E a \in sqa.addons : a.name = version) => sqa'.addons = sqa.addons
             /\ Cardinality({a \in sqa'.addons : a.name = version}) = 1
             /\ sqa.tpis \subseteq sqa'.tpis
             /\ Cardinality(CreatedTestPlanInstances) = 1
             /\ last'.outcome = PROCESS_IN_PROGRESS]_vars

\* a pass whose start failed at the creation of the test-plan-instance, and
\* the pass after it: one product version, one addon, one test-plan-instance
C39_Witness ==
    /\ prev.ran /\ ~prev.dry_run
    /\ prev.fault.kind = "start" /\ prev.fault.step = "tpi_create"
    /\ Len(prev.started) = 1 /\ ~prev.started[1].ok
    /\ prev.outcome = PROCESS_CI_FAILED
    /\ last.ran /\ ~last.dry_run /\ last.fault = NoFault
    /\ Len(last.started) = 1 /\ last.started[1].ok
    /\ Cardinality(sqa.pvs) = 1
    /\ Cardinality(sqa.addons) = 1
    /\ Cardinality(sqa.tpis) = 1
    /\ last.outcome = PROCESS_IN_PROGRESS

\* the revision the last set call of the log left in the cell of a matrix
\* (NoRev: no set call for the cell)
LastSet(side, k) ==
    LET hits == {i \in DOMAIN mat.calls :
                    /\ mat.calls[i].side = side
                    /\ <<mat.calls[i].arch, mat.calls[i].base>> = k}
    IN IF hits = {} THEN NoRev
       ELSE mat.calls[CHOOSE i \in hits : \A j \in hits : j <= i].revision

\* C34: two RevisionMatrix values are equal if and only if their (arch,
\* base) to revision mappings are identical, whatever the order of the set
\* calls that built them: a different revision in a cell, or a cell present
\* in one matrix only, makes them unequal.
C34_MatrixEquality ==
    mat.compared =>
        (mat.result <=> \A k \in MatrixCells : LastSet("left", k) = LastSet("right", k))

\* the same two entries set in opposite orders: the matrices are equal
C34_Witness ==
    /\ mat.compared /\ mat.result
    /\ Len(mat.calls) = 4
    /\ mat.calls[1].side = "left" /\ mat.calls[1].arch = "amd64"
    /\ mat.calls[2].side = "left" /\ mat.calls[2].arch = "arm64"
    /\ mat.calls[3].side = "right" /\ mat.calls[3].arch = "arm64"
    /\ mat.calls[4].side = "right" /\ mat.calls[4].arch = "amd64"
    /\ mat.calls[1].revision # mat.calls[2].revision

\* the threads whose read of next_priority has returned
Returned == {t \in Threads : gen.th[t].pc \in {"release", "done"}}

\* C35: next_priority is an atomic increment: in every interleaving of the
\* threads reading it, no two reads return the same value, and the values
\* the n reads made so far returned are exactly initial+1 .. initial+n.
C35_AtomicIncrement ==
    /\ \A t, u \in Returned :
          t # u => gen.th[t].returned # gen.th[u].returned
    /\ {gen.th[t].returned : t \in Returned}
          = (gen.initial + 1)..(gen.initial + Cardinality(Returned))

\* every thread has read next_priority, the second thread first
C35_Witness ==
    /\ Returned = Threads
    /\ \A t \in Threads : gen.th[t].pc = "done"
    /\ gen.th[2].returned = gen.initial + 1
    /\ gen.th[1].returned = gen.initial + MaxThreads
    /\ gen.value = gen.initial + MaxThreads
====
